---- MODULE Spec2Model ----
(***************************************************************************)
(* State-machine model of the Space Invaders simulation core:              *)
(* engine/alien.py, engine/barrier.py, engine/player.py,                   *)
(* engine/game_state.py, engine/entity.py, the main loop of                *)
(* space_invaders.py, the decision collaborators of                        *)
(* ai/cli_prolog_bridge.py and ai/prolog_bridge.py, and the                *)
(* Prolog-controlled aliens of test_prolog_integration.py.                 *)
(*                                                                         *)
(* The module holds one specification per component (SpecEntity,           *)
(* SpecAlien, SpecPrologAlien, SpecBarrier, SpecBarrierPair, SpecBuild,    *)
(* SpecPlayer, SpecReset, SpecShots, SpecMove, SpecBullets, SpecOwners,    *)
(* SpecBridge) whose actions are the component's methods, and the          *)
(* specifications of the main loop: Spec, with every collision test an     *)
(* input; SpecKeys, Spec with the event handler taken key by key;          *)
(* SpecPlay, the loop of a player who keeps playing; SpecScore, the loop   *)
(* over a grid with one alien per row; and SpecGame and SpecGameLive, the  *)
(* loop on the rectangles of the player, the aliens and the bullets.  All  *)
(* share the variables below; a specification leaves the variables of      *)
(* the other components at their initial values.                           *)
(***************************************************************************)
EXTENDS Integers, Sequences, FiniteSets, TLC

VARIABLES
    aliens,     \* AlienGroup.aliens: sequence of alien records
    abullets,   \* AlienGroup.bullets: sequence of alien bullet records
    barriers,   \* BarrierGroup.barriers: sequence of barrier records
    player,     \* the Player object
    pbullets,   \* Player.bullets: sequence of player bullet records
    gs,         \* the GameStateManager object
    game_won,   \* main(): local game_won
    running,    \* main(): local running
    pc,         \* main(): position inside the loop body
    bridge,     \* the decision collaborator (CLIPrologBridge or PrologBridge) and its files
    last,       \* history: the last method call, its result and the object before it
    hist        \* history: bookkeeping over the run (see each specification)

vars == <<aliens, abullets, barriers, player, pbullets, gs, game_won, running, pc,
          bridge, last, hist>>

-----------------------------------------------------------------------------
(* engine/config.py *)

SCREEN_WIDTH == 800
SCREEN_HEIGHT == 600
PLAYER_WIDTH == 60
PLAYER_HEIGHT == 40
PLAYER_SPEED == 40
PLAYER_BULLET_SPEED == 40
ALIEN_WIDTH == 50
ALIEN_HEIGHT == 40
ALIEN_HORIZONTAL_SPACING == 10
ALIEN_VERTICAL_SPACING == 10
ALIEN_HORIZONTAL_SPEED == 10
ALIEN_VERTICAL_SPEED == 20
ALIEN_BULLET_SPEED == 10
BARRIER_COUNT == 4
BARRIER_WIDTH == 80
BARRIER_SEGMENTS_X == 8
BARRIER_SEGMENTS_Y == 6
BARRIER_SEGMENT_SIZE == 10
GAME_AREA_TOP == 60
GAME_AREA_BOTTOM == 550
BULLET_WIDTH == 4
BULLET_HEIGHT == 10

-----------------------------------------------------------------------------
(* Helpers over sequences *)

Range(s) == {s[i] : i \in DOMAIN s}

IsActive(e) == e.active

\* the number of bullets of a list that were deactivated since its owner's
\* last update (recorded in `last` by the update that meets them)
Stale(bs) == Cardinality({i \in DOMAIN bs : ~bs[i].active})

-----------------------------------------------------------------------------
(* engine/entity.py *)

\* an update that leaves the rectangle where it was
EntityUpdate_NoSync(e) == e

\* Entity.update: the rectangle is synchronised with the position.
EntityUpdate(e) == [e EXCEPT !.rx = e.x, !.ry = e.y]

\* Entity.deactivate
Deactivate(e) == [e EXCEPT !.active = FALSE]

\* a colliderect that also counts rectangles touching along an edge or corner
RectsOverlap_Touching(x1, y1, w1, h1, x2, y2, w2, h2) ==
    /\ x1 <= x2 + w2
    /\ x2 <= x1 + w1
    /\ y1 <= y2 + h2
    /\ y2 <= y1 + h1

\* pygame.Rect.colliderect on rectangles (x, y, w, h): overlap of positive area.
RectsOverlap(x1, y1, w1, h1, x2, y2, w2, h2) ==
    /\ x1 < x2 + w2
    /\ x2 < x1 + w1
    /\ y1 < y2 + h2
    /\ y2 < y1 + h1

\* Entity.__init__ for an entity with its own width and height
Entity(x, y, width, height) ==
    [x |-> x, y |-> y, width |-> width, height |-> height,
     rx |-> x, ry |-> y, active |-> TRUE]

\* Entity.collides_with
collides_with(self, other) ==
    IF ~self.active \/ ~other.active THEN FALSE
    ELSE RectsOverlap(self.rx, self.ry, self.width, self.height,
                      other.rx, other.ry, other.width, other.height)

-----------------------------------------------------------------------------
(* engine/alien.py *)

\* Alien.POINTS
POINTS == <<30, 20, 20, 10, 10>>

\* Alien.__init__
Alien(x, y, row, col, alien_id) ==
    [x |-> x, y |-> y, rx |-> x, ry |-> y, active |-> TRUE,
     row |-> row, col |-> col, direction |-> 1, id |-> alien_id,
     points |-> IF row < Len(POINTS) THEN POINTS[row + 1] ELSE 10]

\* AlienBullet.__init__
AlienBullet(x, y) ==
    LET bullet_x == x - (BULLET_WIDTH \div 2)
    IN  [x |-> bullet_x, y |-> y, rx |-> bullet_x, ry |-> y, active |-> TRUE]

\* AlienBullet.update
AlienBulletUpdate(b) ==
    LET moved == EntityUpdate([b EXCEPT !.y = b.y + ALIEN_BULLET_SPEED])
    IN  IF moved.y > SCREEN_HEIGHT THEN Deactivate(moved) ELSE moved

\* Alien.move_horizontal
move_horizontal(a) == [a EXCEPT !.x = a.x + a.direction * ALIEN_HORIZONTAL_SPEED]

\* Alien.move_down
move_down(a) == [a EXCEPT !.y = a.y + ALIEN_VERTICAL_SPEED]

\* Alien.reverse_direction
reverse_direction(a) == [a EXCEPT !.direction = a.direction * (-1)]

\* should_reverse that waits until the alien has crossed the edge
should_reverse_Late(a) ==
    \/ (a.x < 0 /\ a.direction < 0)
    \/ (a.x + ALIEN_WIDTH > SCREEN_WIDTH /\ a.direction > 0)

\* Alien.should_reverse
should_reverse(a) ==
    \/ (a.x <= 0 /\ a.direction < 0)
    \/ (a.x + ALIEN_WIDTH >= SCREEN_WIDTH /\ a.direction > 0)

\* Alien.create_bullet
create_bullet(a) == AlienBullet(a.x + (ALIEN_WIDTH \div 2), a.y + ALIEN_HEIGHT)

\* AlienGroup.__init__: the grid, row by row, ids counting from 1.
AlienGroupInit(rows, cols, start_x, start_y, h_spacing, v_spacing) ==
    [k \in 1..(rows * cols) |->
        LET row == (k - 1) \div cols
            col == (k - 1) % cols
        IN  Alien(start_x + col * (ALIEN_WIDTH + h_spacing),
                  start_y + row * (ALIEN_HEIGHT + v_spacing), row, col, k)]

\* AlienGroup.update, first line: any(alien.should_reverse() for active aliens)
\* an edge scan that also looks at the aliens already destroyed
GroupShouldReverse_AllAliens(grp) ==
    \E i \in DOMAIN grp : should_reverse(grp[i])

GroupShouldReverse(grp) ==
    \E i \in DOMAIN grp : grp[i].active /\ should_reverse(grp[i])

\* A plausible slip: each alien reverses and descends on its own edge contact.
AlienGroupMove_PerAlien(grp) ==
    [i \in DOMAIN grp |->
        IF grp[i].active
        THEN LET a1 == IF should_reverse(grp[i])
                       THEN move_down(reverse_direction(grp[i])) ELSE grp[i]
             IN  EntityUpdate(move_horizontal(a1))
        ELSE grp[i]]

\* A plausible slip: the group descends on every tick.
AlienGroupMove_AlwaysDown(grp) ==
    LET rev == GroupShouldReverse(grp)
        turned == [i \in DOMAIN grp |->
                     IF rev /\ grp[i].active THEN reverse_direction(grp[i]) ELSE grp[i]]
    IN  [i \in DOMAIN grp |->
           IF turned[i].active
           THEN EntityUpdate(move_horizontal(move_down(turned[i])))
           ELSE turned[i]]

\* AlienGroup.update without the loop over the aliens: the group stands still
AlienGroupMove_Still(grp) == grp

\* AlienGroup.update, the aliens: the group-wide reversal, then per active
\* alien the descent (if reversing), the horizontal step and Entity.update.
AlienGroupMove(grp) ==
    LET should_move_down == GroupShouldReverse(grp)
        turned == [i \in DOMAIN grp |->
                     IF should_move_down /\ grp[i].active
                     THEN reverse_direction(grp[i]) ELSE grp[i]]
    IN  [i \in DOMAIN grp |->
           IF turned[i].active
           THEN EntityUpdate(move_horizontal(
                    IF should_move_down THEN move_down(turned[i]) ELSE turned[i]))
           ELSE turned[i]]

\* AlienGroup.update, the bullets of this tick: one per alien of `fire` (the
\* aliens whose should_fire() draw succeeded), in alien order, from the moved alien.
RECURSIVE FiredBullets(_, _, _)
FiredBullets(moved, fire, k) ==
    IF k > Len(moved) THEN <<>>
    ELSE (IF k \in fire /\ moved[k].active THEN <<create_bullet(moved[k])>> ELSE <<>>)
         \o FiredBullets(moved, fire, k + 1)

\* AlienGroup.update with a bullet loop that updates and never removes
AlienBulletsStep_KeepInactive(bs) == [i \in DOMAIN bs |-> AlienBulletUpdate(bs[i])]

\* AlienGroup.update, the bullet loop: every bullet is updated, inactive ones removed.
AlienBulletsStep(bs) == SelectSeq([i \in DOMAIN bs |-> AlienBulletUpdate(bs[i])], IsActive)

\* AlienGroup.get_active_aliens (as the set of indices)
ActiveAliens(grp) == {i \in DOMAIN grp : grp[i].active}

\* AlienGroup.is_empty
is_empty(grp) == ActiveAliens(grp) = {}

\* reached_bottom with a strict comparison
reached_bottom_Strict(grp, bottom_y) ==
    \E i \in ActiveAliens(grp) : grp[i].y + ALIEN_HEIGHT > bottom_y

\* AlienGroup.reached_bottom
reached_bottom(grp, bottom_y) ==
    \E i \in ActiveAliens(grp) : grp[i].y + ALIEN_HEIGHT >= bottom_y

-----------------------------------------------------------------------------
(* engine/barrier.py *)

\* Entity.collides_with for a barrier segment and a bullet: both active and
\* their rectangles overlap.
SegmentCollidesWith(seg, bullet) ==
    /\ seg.active
    /\ bullet.active
    /\ RectsOverlap(seg.rx, seg.ry, BARRIER_SEGMENT_SIZE, BARRIER_SEGMENT_SIZE,
                    bullet.rx, bullet.ry, BULLET_WIDTH, BULLET_HEIGHT)

\* BarrierSegment.__init__
BarrierSegment(x, y, barrier_id, segment_id) ==
    [x |-> x, y |-> y, rx |-> x, ry |-> y, active |-> TRUE,
     barrier_id |-> barrier_id, segment_id |-> segment_id, health |-> 3]

\* A plausible slip: the segment is deactivated one hit early.
SegmentTakeDamage_Early(seg) ==
    LET hit == [seg EXCEPT !.health = seg.health - 1]
    IN  IF hit.health <= 1
        THEN [seg |-> Deactivate(hit), destroyed |-> TRUE]
        ELSE [seg |-> hit, destroyed |-> FALSE]

\* BarrierSegment.take_damage: the segment afterwards and the value returned.
SegmentTakeDamage(seg) ==
    LET hit == [seg EXCEPT !.health = seg.health - 1]
    IN  IF hit.health <= 0
        THEN [seg |-> Deactivate(hit), destroyed |-> TRUE]
        ELSE [seg |-> hit, destroyed |-> FALSE]

\* a stencil whose notch starts one row late (> for >=)
StencilHolds_LateNotch(rows, cols, row, col) ==
    LET middle_width == 2
        middle_start == (cols - middle_width) \div 2
    IN  /\ ~(row = 0 /\ (col = 0 \/ col = cols - 1))
        /\ ~(/\ row > (rows * 2) \div 3
             /\ col >= middle_start
             /\ col < middle_start + middle_width)

\* Barrier._create_segments, the stencil: the cell (row, col) of a rows x cols
\* grid holds a segment unless it is a top corner or lies in the bottom notch.
StencilHolds(rows, cols, row, col) ==
    LET middle_width == 2
        middle_start == (cols - middle_width) \div 2
    IN  /\ ~(row = 0 /\ (col = 0 \/ col = cols - 1))
        /\ ~(/\ row >= (rows * 2) \div 3
             /\ col >= middle_start
             /\ col < middle_start + middle_width)

\* Barrier._create_segments: the segments in row-major order, numbered from 0,
\* from cell k on (k counts the cells of the grid row by row).
RECURSIVE CreateSegments(_, _, _, _, _, _, _)
CreateSegments(bx, by, barrier_id, rows, cols, k, segment_count) ==
    IF k >= rows * cols THEN <<>>
    ELSE LET row == k \div cols
             col == k % cols
         IN  IF StencilHolds(rows, cols, row, col)
             THEN <<BarrierSegment(bx + col * BARRIER_SEGMENT_SIZE,
                                   by + row * BARRIER_SEGMENT_SIZE,
                                   barrier_id, segment_count)>>
                  \o CreateSegments(bx, by, barrier_id, rows, cols, k + 1, segment_count + 1)
             ELSE CreateSegments(bx, by, barrier_id, rows, cols, k + 1, segment_count)

\* Barrier.__init__ for a grid of rows x cols cells
Barrier(x, y, barrier_id, rows, cols) ==
    LET bx == x - (BARRIER_WIDTH \div 2)
    IN  [x |-> bx, y |-> y, id |-> barrier_id, active |-> TRUE,
         segments |-> CreateSegments(bx, y, barrier_id, rows, cols, 0, 0)]

\* A plausible slip: destroyed segments are pruned but the barrier stays active.
BarrierUpdate_NoDeactivate(bar) ==
    [bar EXCEPT !.segments = SelectSeq(bar.segments, IsActive)]

\* Barrier.update
BarrierUpdate(bar) ==
    LET kept == SelectSeq(bar.segments, IsActive)
    IN  [bar EXCEPT !.segments = kept,
                    !.active = IF kept = <<>> THEN FALSE ELSE bar.active]

\* Barrier.check_collision, the loop: the index of the first segment in stored
\* order that collides with the bullet, 0 if there is none.
FirstHitSegment(bar, bullet) ==
    LET hits == {k \in DOMAIN bar.segments : SegmentCollidesWith(bar.segments[k], bullet)}
    IN  IF hits = {} THEN 0 ELSE CHOOSE k \in hits : \A j \in hits : k <= j

\* Barrier.check_collision: the barrier afterwards, the value returned, the
\* index of the damaged segment and what its take_damage returned.
BarrierCheckCollision(bar, bullet) ==
    IF ~bar.active \/ ~bullet.active
    THEN [bar |-> bar, hit |-> FALSE, seg |-> 0, destroyed |-> FALSE]
    ELSE LET k == FirstHitSegment(bar, bullet)
         IN  IF k = 0
             THEN [bar |-> bar, hit |-> FALSE, seg |-> 0, destroyed |-> FALSE]
             ELSE LET r == SegmentTakeDamage(bar.segments[k])
                  IN  [bar |-> [bar EXCEPT !.segments[k] = r.seg],
                       hit |-> TRUE, seg |-> k, destroyed |-> r.destroyed]

\* BarrierGroup.__init__ for barriers of rows x cols cells
BarrierGroupInit(count, start_x, width, y, rows, cols) ==
    LET spacing == width \div count
    IN  [i \in 1..count |->
            Barrier(start_x + (i - 1) * spacing + (spacing \div 2), y, i, rows, cols)]

\* BarrierGroup.update
BarrierGroupUpdate(bars) ==
    [i \in DOMAIN bars |-> IF bars[i].active THEN BarrierUpdate(bars[i]) ELSE bars[i]]

\* A plausible slip: the search goes on after a hit, so every barrier the
\* bullet overlaps is damaged.
RECURSIVE BarrierGroupCheckCollision_AllBarriers(_, _, _)
BarrierGroupCheckCollision_AllBarriers(bars, bullet, i) ==
    IF i > Len(bars)
    THEN [bars |-> bars, hit |-> FALSE, barrier |-> 0, seg |-> 0, destroyed |-> FALSE]
    ELSE LET r == BarrierCheckCollision(bars[i], bullet)
             rest == BarrierGroupCheckCollision_AllBarriers(bars, bullet, i + 1)
         IN  IF bars[i].active /\ r.hit
             THEN [bars |-> [rest.bars EXCEPT ![i] = r.bar], hit |-> TRUE,
                   barrier |-> i, seg |-> r.seg, destroyed |-> r.destroyed]
             ELSE rest

\* BarrierGroup.check_collision: barriers in construction order, stopping at
\* the first that reports a hit.  The group afterwards, the value returned, the
\* barrier and segment damaged and what take_damage returned.
RECURSIVE BarrierGroupCheckCollision(_, _, _)
BarrierGroupCheckCollision(bars, bullet, i) ==
    IF i > Len(bars)
    THEN [bars |-> bars, hit |-> FALSE, barrier |-> 0, seg |-> 0, destroyed |-> FALSE]
    ELSE LET r == BarrierCheckCollision(bars[i], bullet)
         IN  IF bars[i].active /\ r.hit
             THEN [bars |-> [bars EXCEPT ![i] = r.bar], hit |-> TRUE,
                   barrier |-> i, seg |-> r.seg, destroyed |-> r.destroyed]
             ELSE BarrierGroupCheckCollision(bars, bullet, i + 1)

-----------------------------------------------------------------------------
(* engine/player.py *)

\* Player.cooldown_time
cooldown_time == 15

\* Player.invulnerable_duration
invulnerable_duration == 60

\* Bullet.__init__
Bullet(x, y) ==
    LET bullet_x == x - (BULLET_WIDTH \div 2)
        bullet_y == y - BULLET_HEIGHT
    IN  [x |-> bullet_x, y |-> bullet_y, rx |-> bullet_x, ry |-> bullet_y, active |-> TRUE]

\* Bullet.update that already deactivates a bullet touching the top of the screen
BulletUpdate_AtEdge(b) ==
    LET moved == EntityUpdate([b EXCEPT !.y = b.y - PLAYER_BULLET_SPEED])
    IN  IF moved.y + BULLET_HEIGHT <= 0 THEN Deactivate(moved) ELSE moved

\* Bullet.update
BulletUpdate(b) ==
    LET moved == EntityUpdate([b EXCEPT !.y = b.y - PLAYER_BULLET_SPEED])
    IN  IF moved.y + BULLET_HEIGHT < 0 THEN Deactivate(moved) ELSE moved

\* Player.__init__
Player(x, y, lives) ==
    LET player_x == x - (PLAYER_WIDTH \div 2)
    IN  [x |-> player_x, y |-> y, rx |-> player_x, ry |-> y, active |-> TRUE,
         cooldown |-> 0, lives |-> lives,
         invulnerable |-> FALSE, invulnerable_time |-> 0]

\* A plausible slip: the invulnerability ends one update late (< for <=).
PlayerUpdate_LateExpiry(p) ==
    LET synced == EntityUpdate(p)
        cooled == [synced EXCEPT !.cooldown =
                      IF p.cooldown > 0 THEN p.cooldown - 1 ELSE p.cooldown]
    IN  IF cooled.invulnerable
        THEN [cooled EXCEPT !.invulnerable_time = cooled.invulnerable_time - 1,
                            !.invulnerable = ~(cooled.invulnerable_time - 1 < 0)]
        ELSE cooled

\* Player.update, the player itself (the bullets are PlayerBulletsStep)
PlayerUpdate(p) ==
    LET synced == EntityUpdate(p)
        cooled == [synced EXCEPT !.cooldown =
                      IF p.cooldown > 0 THEN p.cooldown - 1 ELSE p.cooldown]
    IN  IF cooled.invulnerable
        THEN [cooled EXCEPT !.invulnerable_time = cooled.invulnerable_time - 1,
                            !.invulnerable = ~(cooled.invulnerable_time - 1 <= 0)]
        ELSE cooled

\* Player.update, the bullet loop
PlayerBulletsStep(bs) == SelectSeq([i \in DOMAIN bs |-> BulletUpdate(bs[i])], IsActive)

\* Player.move_left
move_left(p) ==
    [p EXCEPT !.x = IF p.x - PLAYER_SPEED > 0 THEN p.x - PLAYER_SPEED ELSE 0]

\* move_right that stops at the screen's edge rather than at the last
\* position where the whole ship is on screen
move_right_ToScreenEdge(p) ==
    [p EXCEPT !.x = IF p.x + PLAYER_SPEED < SCREEN_WIDTH
                    THEN p.x + PLAYER_SPEED ELSE SCREEN_WIDTH]

\* Player.move_right
move_right(p) ==
    [p EXCEPT !.x = IF p.x + PLAYER_SPEED < SCREEN_WIDTH - PLAYER_WIDTH
                    THEN p.x + PLAYER_SPEED ELSE SCREEN_WIDTH - PLAYER_WIDTH]

\* A plausible slip: shoot does not look at the cooldown.
PlayerShoot_Ungated(p, bs) ==
    [player |-> [p EXCEPT !.cooldown = cooldown_time],
     bullets |-> Append(bs, Bullet(p.x + (PLAYER_WIDTH \div 2), p.y))]

\* Player.shoot: the player and its bullet list afterwards
PlayerShoot(p, bs) ==
    IF p.cooldown = 0
    THEN [player |-> [p EXCEPT !.cooldown = cooldown_time],
          bullets |-> Append(bs, Bullet(p.x + (PLAYER_WIDTH \div 2), p.y))]
    ELSE [player |-> p, bullets |-> bs]

\* A plausible slip: a hit on an invulnerable player re-arms the timer.
PlayerTakeDamage_Rearm(p) ==
    IF p.invulnerable
    THEN [player |-> [p EXCEPT !.invulnerable_time = invulnerable_duration], ret |-> FALSE]
    ELSE LET hit == [p EXCEPT !.lives = p.lives - 1]
         IN  IF hit.lives <= 0
             THEN [player |-> Deactivate(hit), ret |-> TRUE]
             ELSE [player |-> [hit EXCEPT !.invulnerable = TRUE,
                                          !.invulnerable_time = invulnerable_duration],
                   ret |-> FALSE]

\* A plausible slip: the last life is lost without deactivating the player.
PlayerTakeDamage_NoDeactivate(p) ==
    IF p.invulnerable
    THEN [player |-> p, ret |-> FALSE]
    ELSE LET hit == [p EXCEPT !.lives = p.lives - 1]
         IN  IF hit.lives <= 0
             THEN [player |-> hit, ret |-> TRUE]
             ELSE [player |-> [hit EXCEPT !.invulnerable = TRUE,
                                          !.invulnerable_time = invulnerable_duration],
                   ret |-> FALSE]

\* Player.take_damage: the player afterwards and the value returned
PlayerTakeDamage(p) ==
    IF p.invulnerable
    THEN [player |-> p, ret |-> FALSE]
    ELSE LET hit == [p EXCEPT !.lives = p.lives - 1]
         IN  IF hit.lives <= 0
             THEN [player |-> Deactivate(hit), ret |-> TRUE]
             ELSE [player |-> [hit EXCEPT !.invulnerable = TRUE,
                                          !.invulnerable_time = invulnerable_duration],
                   ret |-> FALSE]

\* Player.reset: bullets are emptied by the caller of this operator
PlayerReset(p, x, y) ==
    [p EXCEPT !.x = x - (PLAYER_WIDTH \div 2), !.y = y, !.cooldown = 0,
              !.active = TRUE, !.invulnerable = FALSE, !.invulnerable_time = 0]

-----------------------------------------------------------------------------
(* engine/game_state.py *)

\* GameStateManager.__init__
GameStateManager == [current_state |-> "MENU", score |-> 0, high_score |-> 0]

\* A plausible slip: the high score is cleared together with the score.
start_game_ClearsHigh(g) ==
    [g EXCEPT !.current_state = "PLAYING", !.score = 0, !.high_score = 0]

\* GameStateManager.start_game
start_game(g) == [g EXCEPT !.current_state = "PLAYING", !.score = 0]

\* A plausible slip: game_over forgets the high score.
game_over_NoHigh(g) == [g EXCEPT !.current_state = "GAME_OVER"]

\* GameStateManager.game_over
game_over(g) ==
    [g EXCEPT !.current_state = "GAME_OVER",
              !.high_score = IF g.score > g.high_score THEN g.score ELSE g.high_score]

\* GameStateManager.return_to_menu
return_to_menu(g) == [g EXCEPT !.current_state = "MENU"]

\* GameStateManager.add_score
add_score(g, points) == [g EXCEPT !.score = g.score + points]

is_menu(g) == g.current_state = "MENU"
is_playing(g) == g.current_state = "PLAYING"
is_game_over(g) == g.current_state = "GAME_OVER"

-----------------------------------------------------------------------------
(* ai/cli_prolog_bridge.py, ai/prolog_bridge.py *)

\* CLIPrologBridge.__init__ / PrologBridge.__init__: no global strategy (0
\* stands for None), the state file written with no facts (for PrologBridge
\* `state` is the set of facts asserted so far), no query written yet, no
\* result file, no call in progress.
NewBridge(kind) ==
    [kind |-> kind, current_strategy |-> 0, state |-> {}, query |-> 0,
     result_file |-> "absent", call |-> "idle"]

\* A fact of the knowledge base: player(pos), alien(id, pos), barrier(id),
\* screen_size, strategy(id); the arguments a predicate does not have are 0.
Fact(pred, id, pos) == [pred |-> pred, id |-> id, pos |-> pos]

\* The facts set_strategy writes or asserts.
StrategyFacts(strategy) == IF strategy # 0 THEN {Fact("strategy", strategy, 0)} ELSE {}

\* The facts update_state builds from the game state `snapshot`: the player,
\* one alien fact per active alien, one barrier fact per active barrier, the
\* screen size.
GameFacts(snapshot) ==
    {Fact("player", 0, snapshot.pos)}
        \cup {Fact("alien", id, snapshot.pos) : id \in snapshot.aliens}
        \cup (IF snapshot.barrier THEN {Fact("barrier", 1, 0)} ELSE {})
        \cup {Fact("screen_size", 0, 0)}

\* CLIPrologBridge.update_state, the facts written: the snapshot, and the
\* strategy if one is set.
SnapshotFacts(snapshot, strategy) == GameFacts(snapshot) \cup StrategyFacts(strategy)

\* CLIPrologBridge._write_query_file, the program it writes: what a swipl run
\* of it does to the result file, by the fate of the query.  `main` writes
\* 'true' if the query succeeds and 'false' if it fails; a run that ends in a
\* Prolog error or is killed writes nothing, or is killed between open() and
\* write() and leaves the file empty.
ResultFileAfter(old, writes) == IF writes = "nothing" THEN old ELSE writes

\* CLIPrologBridge._execute_query after subprocess.run has returned: the value
\* returned, from the return code, stderr and the result file as it is now.
CLIExecuteResult(rc_nonzero, stderr_nonempty, result_file) ==
    IF rc_nonzero /\ stderr_nonempty THEN "False"
    ELSE IF result_file # "absent"
         THEN (IF result_file = "true" THEN "True" ELSE "False")
         ELSE "False"

\* PrologBridge.should_alien_fire after prolog.query has ended: True if there
\* is a solution, False if there is none or an exception was caught.
PyswipQueryResult(query) == IF query = "succeeded" THEN "True" ELSE "False"

-----------------------------------------------------------------------------
(* test_prolog_integration.py: PrologAlien, PrologAlienGroup *)

\* PrologAlien.__init__: firing_cooldown_time
firing_cooldown_time == 30

\* PrologAlien.__init__: an Alien with a firing cooldown
PrologAlien(a) ==
    [x |-> a.x, y |-> a.y, rx |-> a.rx, ry |-> a.ry, active |-> a.active,
     row |-> a.row, col |-> a.col, direction |-> a.direction, id |-> a.id,
     points |-> a.points, firing_cooldown |-> 0]

\* PrologAlienGroup.__init__: the grid of AlienGroup with at most 3 rows
PrologAlienGroupInit(rows, cols, start_x, start_y, h_spacing, v_spacing) ==
    LET actual_rows == IF rows < 3 THEN rows ELSE 3
        grid == AlienGroupInit(actual_rows, cols, start_x, start_y, h_spacing, v_spacing)
    IN  [i \in DOMAIN grid |-> PrologAlien(grid[i])]

\* PrologAlien.update, the cooldown
PrologAlienCool(a) ==
    [a EXCEPT !.firing_cooldown = IF @ > 0 THEN @ - 1 ELSE @]

\* a should_fire that asks the collaborator whatever the cooldown
PrologShouldAsk_Always(a) == TRUE

\* PrologAlien.should_fire, the gate: the collaborator is asked only if the
\* cooldown does not forbid it
PrologShouldAsk(a) == ~(a.firing_cooldown > 0)

\* PrologAlienGroup.update, the aliens before firing: the movement of
\* AlienGroup.update, then PrologAlien.update's cooldown step on each active alien
PrologAlienGroupMove(grp) ==
    LET moved == AlienGroupMove(grp)
    IN  [i \in DOMAIN moved |->
           IF moved[i].active THEN PrologAlienCool(moved[i]) ELSE moved[i]]

\* the aliens of the moved group for which should_alien_fire is called
PrologAsked(moved) == {i \in DOMAIN moved : moved[i].active /\ PrologShouldAsk(moved[i])}

\* PrologAlienGroup.update, the aliens afterwards: those of `fire` (asked, and
\* answered True) get their cooldown set
PrologAlienGroupFire(moved, fire) ==
    [i \in DOMAIN moved |->
       IF i \in fire THEN [moved[i] EXCEPT !.firing_cooldown = firing_cooldown_time]
       ELSE moved[i]]

-----------------------------------------------------------------------------
(* Bounds of the model *)

\* rows and columns of the alien grid handed to AlienGroup.__init__
NumAlienRows == 1
NumAlienCols == 2
\* columns of the alien grid of the main loop (config: ALIEN_COLS = 11)
GameAlienCols == 1
\* alien bullets in flight: a should_fire() draw succeeds only below this
\* (the main loop and SpecBullets; SpecAlien and SpecOwners)
MaxAlienBullets == 2
MaxSweepAlienBullets == 1

\* aliens of a PrologAlienGroup deactivated from outside
MaxPrologKills == 1

\* the geometric main loop: rows of its one-column alien grid, alien bullets
\* in flight (a should_fire() draw succeeds only below this) in SpecGame and
\* in SpecGameLive, and games started with RETURN in one run
GameRows == 1
MaxGameAlienBullets == 0
MaxLiveAlienBullets == 1
MaxGames == 1

\* player bullets in flight: SPACE is pressed with cooldown 0 only below this
MaxPlayerBullets == 1

\* barriers handed to BarrierGroup.__init__ (main: BARRIER_COUNT = 4), and the
\* cell grid of one barrier (config: BARRIER_SEGMENTS_Y x BARRIER_SEGMENTS_X = 6 x 8)
NumBarriers == 1
NumSegRows == 2
NumSegCols == 4

\* a group of overlapping barriers: the count and total width handed to
\* BarrierGroup.__init__ and the cell grid of each barrier
PairCount == 2
PairWidth == 8
PairSegRows == 2
PairSegCols == 3

\* arrow-key steps the player takes away from its start position
MaxPlayerMoves == 1

\* y handed to Player.__init__ (main: GAME_AREA_BOTTOM); from the second one a
\* bullet comes to rest with its bottom edge exactly on the top of the screen
PlayerStartYs == {GAME_AREA_BOTTOM, PLAYER_BULLET_SPEED}

\* two entities probed for collision: the largest coordinate and the largest
\* width and height handed to Entity.__init__
MaxEntityPos == 2
MaxEntitySize == 2

\* barrier groups constructed with the configured cell grid: the largest
\* count, and the number of start_x and y values, handed to BarrierGroup.__init__
MaxBuildCount == 4
NumBuildXs == 5
NumBuildYs == 5

\* rows of the one-column alien grid of the games in which the score is
\* followed (config: ALIEN_ROWS = 5; the sixth row takes the default value)
ScoreAlienRows == 6

\* hits taken by a player that was reset with no lives left: lives may fall
\* this far below zero
MaxLivesOwed == 1

\* alien ids queried and strategy numbers set on the decision collaborator,
\* and the largest position of a game state handed to update_state
MaxAlienId == 2
MaxStrategy == 1
MaxSnapshotPos == 1

\* start positions handed to AlienGroup.__init__ (main: 50 and GAME_AREA_TOP + 50)
AlienStartXs == {SCREEN_WIDTH - 200}
AlienStartYs == {GAME_AREA_BOTTOM - 80}
\* the same for the group of SpecBullets, one descent from the bottom
LowAlienStartYs == {GAME_AREA_BOTTOM - 60}

-----------------------------------------------------------------------------
(* Values of the variables a specification does not use *)

NoCall == [op |-> "none"]

IdlePlayer == Player(SCREEN_WIDTH \div 2, GAME_AREA_BOTTOM, 3)

AlienIdle ==
    /\ aliens = <<>>
    /\ abullets = <<>>

BarrierIdle == barriers = <<>>

PlayerIdle ==
    /\ player = IdlePlayer
    /\ pbullets = <<>>

GameIdle ==
    /\ gs = GameStateManager
    /\ game_won = FALSE
    /\ running = TRUE
    /\ pc = "events"

\* no decision collaborator constructed (space_invaders.py has none)
NoBridge == [kind |-> "none"]

BridgeIdle == bridge = NoBridge

alienVars == <<aliens, abullets>>
barrierVars == <<barriers>>
bridgeVars == <<bridge>>
playerVars == <<player, pbullets>>
gameVars == <<gs, game_won, running, pc>>

-----------------------------------------------------------------------------
(* SpecAlien: an AlienGroup under update() calls, with aliens and bullets     *)
(* deactivated from outside as the main loop's collision resolution does.    *)

\* The outcomes of the should_fire() draws of one update: the set of aliens
\* whose draw succeeded (random.random() < firing_chance).
\* the same with at most `cap` alien bullets in flight
FireChoicesUpTo(grp, bs, cap) ==
    {{}} \cup (IF Len(bs) < cap THEN {{i} : i \in ActiveAliens(grp)} ELSE {})

FireChoices(grp, bs) == FireChoicesUpTo(grp, bs, MaxAlienBullets)

\* The group built at one of the start heights `ys`.
InitAlienAt(ys) ==
    /\ \E sx \in AlienStartXs, sy \in ys :
          aliens = AlienGroupInit(NumAlienRows, NumAlienCols, sx, sy,
                                  ALIEN_HORIZONTAL_SPACING, ALIEN_VERTICAL_SPACING)
    /\ abullets = <<>>
    /\ BarrierIdle /\ PlayerIdle /\ GameIdle /\ BridgeIdle
    /\ last = NoCall
    /\ hist = 0

InitAlien == InitAlienAt(AlienStartYs)

\* AlienGroup.update, with at most `cap` alien bullets in flight.  The main
\* loop calls it while the state is PLAYING, which ends once an alien has
\* reached GAME_AREA_BOTTOM.
AlienGroupUpdateUpTo(cap) ==
    /\ ~reached_bottom(aliens, GAME_AREA_BOTTOM)
    /\ \E moved \in {AlienGroupMove(aliens)} :
       \E fire \in FireChoicesUpTo(aliens, abullets, cap) :
          /\ aliens' = moved
          /\ abullets' = AlienBulletsStep(abullets \o FiredBullets(moved, fire, 1))
          /\ last' = [op |-> "AlienGroup.update", stale |-> Stale(abullets)]
    /\ UNCHANGED <<bridgeVars, barrierVars, playerVars, gameVars, hist>>

AlienGroupUpdate == AlienGroupUpdateUpTo(MaxSweepAlienBullets)

\* alien.deactivate(), as called on a collision with a player bullet
AlienDeactivate ==
    /\ \E i \in ActiveAliens(aliens) :
          /\ aliens' = [aliens EXCEPT ![i] = Deactivate(aliens[i])]
          /\ last' = [op |-> "Alien.deactivate"]
    /\ UNCHANGED <<bridgeVars, abullets, barrierVars, playerVars, gameVars, hist>>

\* bullet.deactivate(), as called on a collision with the player or a barrier
AlienBulletDeactivate ==
    /\ \E j \in DOMAIN abullets :
          /\ abullets[j].active
          /\ abullets' = [abullets EXCEPT ![j] = Deactivate(abullets[j])]
          /\ last' = [op |-> "AlienBullet.deactivate"]
    /\ UNCHANGED <<bridgeVars, aliens, barrierVars, playerVars, gameVars, hist>>

NextAlien ==
    \/ AlienGroupUpdate
    \/ AlienDeactivate
    \/ AlienBulletDeactivate

SpecAlien == InitAlien /\ [][NextAlien]_vars

\* C1: in a tick of AlienGroup.update in which some active alien is at an edge
\* it is moving towards, every active alien flips its direction once, moves
\* down by ALIEN_VERTICAL_SPEED once, and takes its horizontal step in the new
\* direction (so the flip and the descent precede the step).
C1_EdgeTickReversesAndDescends ==
    [][(last'.op = "AlienGroup.update" /\ GroupShouldReverse(aliens)) =>
         \A i \in DOMAIN aliens :
            aliens[i].active =>
               /\ aliens'[i].direction = -aliens[i].direction
               /\ aliens'[i].y = aliens[i].y + ALIEN_VERTICAL_SPEED
               /\ aliens'[i].x = aliens[i].x
                                   + aliens'[i].direction * ALIEN_HORIZONTAL_SPEED]_vars

\* C1, the scenario: the 1 x 2 group just after the tick that found its
\* rightmost alien at x = SCREEN_WIDTH - width moving right: both aliens move
\* left, both are one vertical increment lower, both took the step to the left.
C1_Witness ==
    /\ last.op = "AlienGroup.update"
    /\ Len(aliens) = 2
    /\ \A i \in {1, 2} : aliens[i].active /\ aliens[i].direction = -1
    /\ aliens[2].x = SCREEN_WIDTH - ALIEN_WIDTH - ALIEN_HORIZONTAL_SPEED
    /\ aliens[1].x = aliens[2].x - (ALIEN_WIDTH + ALIEN_HORIZONTAL_SPACING)
    /\ \A i \in {1, 2} : aliens[i].y = GAME_AREA_BOTTOM - 80 + ALIEN_VERTICAL_SPEED

\* C2: in a tick of AlienGroup.update in which no active alien is at an edge
\* it is moving towards, no alien changes direction or y; an active alien
\* moves by its speed in its direction and an inactive one not at all.
C2_NoEdgeTickOnlyMovesSideways ==
    [][(last'.op = "AlienGroup.update" /\ ~GroupShouldReverse(aliens)) =>
         \A i \in DOMAIN aliens :
            /\ aliens'[i].direction = aliens[i].direction
            /\ aliens'[i].y = aliens[i].y
            /\ aliens'[i].x = IF aliens[i].active
                              THEN aliens[i].x + aliens[i].direction * ALIEN_HORIZONTAL_SPEED
                              ELSE aliens[i].x]_vars

\* C2: a state just after an update that moved the group sideways only, after
\* an earlier descent (so y differs from the start and the group moves left).
C2_Witness ==
    /\ last.op = "AlienGroup.update"
    /\ \E i \in DOMAIN aliens :
          /\ aliens[i].active
          /\ aliens[i].direction = -1
          /\ aliens[i].y = GAME_AREA_BOTTOM - 80 + ALIEN_VERTICAL_SPEED
          /\ aliens[i].x < SCREEN_WIDTH - 3 * ALIEN_WIDTH

\* C3: all active aliens of the group have the same horizontal direction.
C3_ActiveAliensShareDirection ==
    \A i, j \in DOMAIN aliens :
        (aliens[i].active /\ aliens[j].active) => aliens[i].direction = aliens[j].direction

\* C3: after a kill and a later reversal: an inactive alien still has the old
\* direction while two or more aliens are active.
C3_Witness ==
    /\ last.op = "AlienGroup.update"
    /\ \E i, j \in DOMAIN aliens :
          /\ ~aliens[i].active
          /\ aliens[j].active
          /\ aliens[i].direction # aliens[j].direction

-----------------------------------------------------------------------------
(* SpecBarrier: a BarrierGroup under check_collision(bullet) and update()    *)
(* calls in any order.                                                       *)

\* The bullets tried against barrier `bar`: in each column and row of its grid
\* a bullet overlapping that column (row) alone and one straddling it and the
\* next, and bullets that only touch the barrier's left and top edge.
ProbeXs(bar) ==
    {bar.x - BULLET_WIDTH}
        \cup {bar.x + BARRIER_SEGMENT_SIZE * c + 3 : c \in 0..(NumSegCols - 1)}
        \cup {bar.x + BARRIER_SEGMENT_SIZE * c + 8 : c \in 0..(NumSegCols - 2)}

ProbeYs(bar) ==
    {bar.y - BULLET_HEIGHT}
        \cup {bar.y + BARRIER_SEGMENT_SIZE * r : r \in 0..(NumSegRows - 1)}
        \cup {bar.y + BARRIER_SEGMENT_SIZE * r + 5 : r \in 0..(NumSegRows - 2)}

ProbeBullets(bars) ==
    UNION {{[x |-> bx, y |-> by, rx |-> bx, ry |-> by, active |-> act] :
               bx \in ProbeXs(bars[i]), by \in ProbeYs(bars[i]), act \in BOOLEAN}
           : i \in DOMAIN bars}

InitBarrier ==
    /\ barriers = BarrierGroupInit(NumBarriers, 0, SCREEN_WIDTH, GAME_AREA_BOTTOM - 100,
                                   NumSegRows, NumSegCols)
    /\ AlienIdle /\ PlayerIdle /\ GameIdle /\ BridgeIdle
    /\ last = NoCall
    /\ hist = 0

\* BarrierGroup.check_collision(bullet)
BarrierGroupCheck ==
    /\ \E bullet \in ProbeBullets(barriers) :
          LET r == BarrierGroupCheckCollision(barriers, bullet, 1)
          IN  /\ barriers' = r.bars
              /\ last' = [op |-> "BarrierGroup.check_collision", hit |-> r.hit,
                          barrier |-> r.barrier, seg |-> r.seg, destroyed |-> r.destroyed]
    /\ UNCHANGED <<bridgeVars, alienVars, playerVars, gameVars, hist>>

\* BarrierGroup.update()
BarrierGroupUpdateCall ==
    /\ barriers' = BarrierGroupUpdate(barriers)
    /\ last' = [op |-> "BarrierGroup.update"]
    /\ UNCHANGED <<bridgeVars, alienVars, playerVars, gameVars, hist>>

NextBarrier ==
    \/ BarrierGroupCheck
    \/ BarrierGroupUpdateCall

SpecBarrier == InitBarrier /\ [][NextBarrier]_vars

AllSegments(bars) == UNION {Range(bars[i].segments) : i \in DOMAIN bars}

\* C4: a hit recorded through check_collision lands on an active segment,
\* lowers its health by exactly 1, leaves it active exactly if health stays
\* above 0, and take_damage returns True exactly on the hit that brings health
\* to 0; health runs 3, 2, 1, 0 and never drops below 0, and a segment is
\* active exactly while its health is above 0.
C4_HitLowersHealthByOne ==
    [][last'.op = "BarrierGroup.check_collision" =>
         /\ last'.hit =>
               LET old == barriers[last'.barrier].segments[last'.seg]
                   new == barriers'[last'.barrier].segments[last'.seg]
               IN  /\ old.active
                   /\ new.health = old.health - 1
                   /\ new.active = (new.health > 0)
                   /\ last'.destroyed = (new.health = 0)
         /\ ~last'.hit => barriers' = barriers
         /\ \A seg \in AllSegments(barriers') :
               /\ seg.health \in 0..3
               /\ seg.active = (seg.health > 0)]_vars

\* C4: the third hit on a segment: health 0, inactive, take_damage returned True.
C4_Witness ==
    /\ last.op = "BarrierGroup.check_collision"
    /\ last.hit
    /\ last.destroyed
    /\ barriers[last.barrier].segments[last.seg].health = 0
    /\ ~barriers[last.barrier].segments[last.seg].active

\* C5: a barrier's active flag is False exactly if its segment list is empty.
C5_InactiveIffNoSegments ==
    \A i \in DOMAIN barriers :
        (barriers[i].active = FALSE) <=> (barriers[i].segments = <<>>)

\* C5: a barrier whose segments were all destroyed and pruned by update.
C5_Witness ==
    /\ last.op = "BarrierGroup.update"
    /\ \E i \in DOMAIN barriers :
          ~barriers[i].active /\ barriers[i].segments = <<>>

-----------------------------------------------------------------------------
(* SpecBarrierPair: a BarrierGroup whose barriers overlap (a total width     *)
(* smaller than one barrier), so that one bullet can overlap segments of     *)
(* several barriers, under check_collision(bullet) and update() calls.       *)

\* The bullets tried: left edges from left of the first barrier's segments to
\* right of the last one's in steps of BULLET_WIDTH, top edges that overlap
\* one row or straddle two rows; one of them also as an inactive bullet.
PairProbeBullets(bars) ==
    LET xs == {bars[1].x + 2 + BULLET_WIDTH * k : k \in 1..(2 * PairSegCols + 2)}
        ys == {bars[1].y + BARRIER_SEGMENT_SIZE * r - 5 : r \in 0..PairSegRows}
        live == {[x |-> bx, y |-> by, rx |-> bx, ry |-> by, active |-> TRUE] :
                    bx \in xs, by \in ys}
    IN  live \cup {[x |-> bars[1].x + 2 + 4 * BULLET_WIDTH, y |-> bars[1].y + 5,
                    rx |-> bars[1].x + 2 + 4 * BULLET_WIDTH, ry |-> bars[1].y + 5,
                    active |-> FALSE]}

InitBarrierPair ==
    /\ barriers = BarrierGroupInit(PairCount, 0, PairWidth, GAME_AREA_BOTTOM - 100,
                                   PairSegRows, PairSegCols)
    /\ AlienIdle /\ PlayerIdle /\ GameIdle /\ BridgeIdle
    /\ last = NoCall
    /\ hist = 0

\* BarrierGroup.check_collision(bullet)
BarrierPairCheck ==
    /\ \E bullet \in PairProbeBullets(barriers) :
          LET r == BarrierGroupCheckCollision(barriers, bullet, 1)
          IN  /\ barriers' = r.bars
              /\ last' = [op |-> "BarrierGroup.check_collision", bullet |-> bullet,
                          hit |-> r.hit, barrier |-> r.barrier, seg |-> r.seg]
    /\ UNCHANGED <<bridgeVars, alienVars, playerVars, gameVars, hist>>

\* BarrierGroup.update()
BarrierPairUpdate ==
    /\ barriers' = BarrierGroupUpdate(barriers)
    /\ last' = [op |-> "BarrierGroup.update"]
    /\ UNCHANGED <<bridgeVars, alienVars, playerVars, gameVars, hist>>

NextBarrierPair ==
    \/ BarrierPairCheck
    \/ BarrierPairUpdate

SpecBarrierPair == InitBarrierPair /\ [][NextBarrierPair]_vars

\* the segments of barrier i that are active and whose rectangle overlaps bullet b
Overlapped(bars, i, b) ==
    {k \in DOMAIN bars[i].segments :
        /\ bars[i].segments[k].active
        /\ RectsOverlap(bars[i].segments[k].rx, bars[i].segments[k].ry,
                        BARRIER_SEGMENT_SIZE, BARRIER_SEGMENT_SIZE,
                        b.rx, b.ry, BULLET_WIDTH, BULLET_HEIGHT)}

\* C14: one check_collision(bullet) call damages at most one segment: if the
\* bullet is active and overlaps an active segment of an active barrier, the
\* first such barrier in construction order is the one hit, in it the first
\* overlapped segment in stored order loses one health, and every other
\* segment of every barrier is as before; otherwise nothing changes and
\* False is returned.
C14_AtMostOneSegmentDamaged ==
    [][last'.op = "BarrierGroup.check_collision" =>
         \E b \in {last'.bullet} :
         \E cand \in {{i \in DOMAIN barriers :
                         barriers[i].active /\ b.active /\ Overlapped(barriers, i, b) # {}}} :
            IF cand = {}
            THEN ~last'.hit /\ barriers' = barriers
            ELSE \E i \in {CHOOSE c \in cand : \A d \in cand : c <= d} :
                 \E over \in {Overlapped(barriers, i, b)} :
                 \E k \in {CHOOSE m \in over : \A n \in over : m <= n} :
                    /\ last'.hit /\ last'.barrier = i /\ last'.seg = k
                    /\ barriers'[i].segments[k].health
                          = barriers[i].segments[k].health - 1
                    /\ \A j \in DOMAIN barriers :
                          /\ DOMAIN barriers'[j].segments = DOMAIN barriers[j].segments
                          /\ barriers'[j].active = barriers[j].active
                          /\ \A m \in DOMAIN barriers[j].segments :
                                (j # i \/ m # k) =>
                                   barriers'[j].segments[m] = barriers[j].segments[m]]_vars

\* C14: just after a hit on the first barrier by a bullet that also overlaps
\* a second segment of that barrier and a segment of the second barrier, all
\* of them still active.
C14_Witness ==
    /\ last.op = "BarrierGroup.check_collision"
    /\ last.hit
    /\ last.barrier = 1
    /\ Cardinality(Overlapped(barriers, 1, last.bullet)) >= 2
    /\ Overlapped(barriers, 2, last.bullet) # {}

-----------------------------------------------------------------------------
(* SpecPlayer: a Player under update(), shoot(), move_left(), move_right()   *)
(* calls in any order, with bullets deactivated from outside as the main     *)
(* loop's collision resolution does.  hist counts the update() calls since   *)
(* the last accepted shot (capped; at the cap before the first shot).        *)

ShotCap == cooldown_time + 1

InitPlayerOnly ==
    /\ \E y \in PlayerStartYs :
          player = Player(SCREEN_WIDTH \div 2, y, 3)
    /\ pbullets = <<>>
    /\ AlienIdle /\ BarrierIdle /\ GameIdle /\ BridgeIdle
    /\ last = NoCall
    /\ hist = ShotCap

\* player.update()
PlayerUpdateCall ==
    /\ player' = PlayerUpdate(player)
    /\ pbullets' = PlayerBulletsStep(pbullets)
    /\ last' = [op |-> "Player.update", stale |-> Stale(pbullets)]
    /\ hist' = IF hist < ShotCap THEN hist + 1 ELSE ShotCap
    /\ UNCHANGED <<bridgeVars, alienVars, barrierVars, gameVars>>

\* player.shoot(); `accepted` says that a bullet was added, `since` is the
\* number of update() calls since the shot accepted before
PlayerShootCall ==
    /\ player.cooldown = 0 => Len(pbullets) < MaxPlayerBullets
    /\ LET r == PlayerShoot(player, pbullets)
           accepted == Len(r.bullets) > Len(pbullets)
       IN  /\ player' = r.player
           /\ pbullets' = r.bullets
           /\ last' = [op |-> "Player.shoot", accepted |-> accepted, since |-> hist]
           /\ hist' = IF accepted THEN 0 ELSE hist
    /\ UNCHANGED <<bridgeVars, alienVars, barrierVars, gameVars>>

\* player.move_left() while K_LEFT is held
PlayerMoveLeft ==
    /\ player.x > (SCREEN_WIDTH \div 2) - (PLAYER_WIDTH \div 2) - MaxPlayerMoves * PLAYER_SPEED
    /\ player' = move_left(player)
    /\ last' = [op |-> "Player.move_left"]
    /\ UNCHANGED <<bridgeVars, alienVars, barrierVars, pbullets, gameVars, hist>>

\* player.move_right() while K_RIGHT is held
PlayerMoveRight ==
    /\ player.x < (SCREEN_WIDTH \div 2) - (PLAYER_WIDTH \div 2) + MaxPlayerMoves * PLAYER_SPEED
    /\ player' = move_right(player)
    /\ last' = [op |-> "Player.move_right"]
    /\ UNCHANGED <<bridgeVars, alienVars, barrierVars, pbullets, gameVars, hist>>

\* bullet.deactivate(), as called on a collision with an alien or a barrier
PlayerBulletDeactivate ==
    /\ \E j \in DOMAIN pbullets :
          /\ pbullets[j].active
          /\ pbullets' = [pbullets EXCEPT ![j] = Deactivate(pbullets[j])]
    /\ last' = [op |-> "Bullet.deactivate"]
    /\ UNCHANGED <<bridgeVars, alienVars, barrierVars, player, gameVars, hist>>

NextPlayer ==
    \/ PlayerUpdateCall
    \/ PlayerShootCall
    \/ PlayerMoveLeft
    \/ PlayerMoveRight
    \/ PlayerBulletDeactivate

SpecPlayer == InitPlayerOnly /\ [][NextPlayer]_vars

\* C15: shoot with cooldown 0 appends one bullet (at the player's horizontal
\* centre, above its top) and sets cooldown to cooldown_time; shoot with
\* cooldown > 0 changes neither the player nor its bullets; an accepted shot
\* comes at least cooldown_time update() calls after the one before, so no
\* two shots are accepted between two update() calls.
C15_ShotsAreCooldownGated ==
    [][last'.op = "Player.shoot" =>
         IF player.cooldown = 0
         THEN /\ last'.accepted
              /\ Len(pbullets') = Len(pbullets) + 1
              /\ SubSeq(pbullets', 1, Len(pbullets)) = pbullets
              /\ LET b == pbullets'[Len(pbullets')]
                 IN  /\ b.active
                     /\ b.x = player.x + (PLAYER_WIDTH \div 2) - (BULLET_WIDTH \div 2)
                     /\ b.y = player.y - BULLET_HEIGHT
              /\ player' = [player EXCEPT !.cooldown = cooldown_time]
              /\ hist >= cooldown_time
         ELSE /\ ~last'.accepted
              /\ player' = player
              /\ pbullets' = pbullets]_vars

\* C15: a shot accepted exactly cooldown_time update() calls after the one
\* before it.
C15_Witness ==
    /\ last.op = "Player.shoot"
    /\ last.accepted
    /\ last.since = cooldown_time
    /\ player.cooldown = cooldown_time
    /\ Len(pbullets) = 1

-----------------------------------------------------------------------------
(* SpecReset: a Player under update(), shoot(), move_left(), take_damage()  *)
(* and reset(x, y) calls in any order.                                       *)

\* player.take_damage()
PlayerTakeDamageCall ==
    /\ player.active
    /\ player.lives > -MaxLivesOwed
    /\ LET r == PlayerTakeDamage(player)
       IN  /\ player' = r.player
           /\ last' = [op |-> "Player.take_damage", ret |-> r.ret]
    /\ UNCHANGED <<bridgeVars, alienVars, barrierVars, pbullets, gameVars, hist>>

\* player.reset(x, y)
PlayerResetCall ==
    /\ \E y \in PlayerStartYs :
          /\ player' = PlayerReset(player, SCREEN_WIDTH \div 2, y)
          /\ last' = [op |-> "Player.reset", x |-> SCREEN_WIDTH \div 2, y |-> y,
                      lives |-> player.lives]
    /\ pbullets' = <<>>
    /\ UNCHANGED <<bridgeVars, alienVars, barrierVars, gameVars, hist>>

NextReset ==
    \/ PlayerUpdateCall
    \/ PlayerShootCall
    \/ PlayerMoveLeft
    \/ PlayerTakeDamageCall
    \/ PlayerResetCall

SpecReset == InitPlayerOnly /\ [][NextReset]_vars

\* C26: after reset(x, y) the player is as a newly constructed Player at
\* (x, y): at that position, active, with full lives, no bullets, cooldown 0
\* and not invulnerable.
C26_ResetGivesANewPlayer ==
    last.op = "Player.reset" =>
        LET new == Player(last.x, last.y, 3)
        IN  /\ player.x = new.x /\ player.y = new.y
            /\ player.active = new.active
            /\ player.lives = new.lives
            /\ player.cooldown = new.cooldown
            /\ player.invulnerable = new.invulnerable
            /\ player.invulnerable_time = new.invulnerable_time
            /\ pbullets = <<>>

\* C26, the part that holds: reset restores everything named but the lives,
\* which it leaves as they were.
C26_ResetRestoresAllButLives ==
    last.op = "Player.reset" =>
        LET new == Player(last.x, last.y, 3)
        IN  /\ player.x = new.x /\ player.y = new.y
            /\ player.active = new.active
            /\ player.lives = last.lives
            /\ player.cooldown = new.cooldown
            /\ player.invulnerable = new.invulnerable
            /\ player.invulnerable_time = new.invulnerable_time
            /\ pbullets = <<>>

\* C37: after any sequence of Player operations the player is active if and
\* only if it has lives left, and lives is never negative.
C37_ActiveIffLivesLeft ==
    /\ player.active <=> (player.lives > 0)
    /\ player.lives >= 0

\* C37, the part that holds: as long as reset has not been called, the player
\* is active exactly while it has lives left and lives is not negative.
C37_ActiveIffLivesLeftBeforeReset ==
    [][(/\ last'.op # "Player.reset"
        /\ player.active <=> (player.lives > 0)
        /\ player.lives >= 0)
         => (/\ player'.active <=> (player'.lives > 0)
             /\ player'.lives >= 0)]_vars

-----------------------------------------------------------------------------
(* SpecShots: a Player under update(), shoot(), move_left() and              *)
(* move_right() calls in any order, with bullets deactivated from outside;   *)
(* shoot() is called whatever the bullet list holds.                         *)

\* player.shoot(), at any moment
PlayerShootAny ==
    /\ LET r == PlayerShoot(player, pbullets)
           accepted == Len(r.bullets) > Len(pbullets)
       IN  /\ player' = r.player
           /\ pbullets' = r.bullets
           /\ last' = [op |-> "Player.shoot", accepted |-> accepted, since |-> hist]
           /\ hist' = IF accepted THEN 0 ELSE hist
    /\ UNCHANGED <<bridgeVars, alienVars, barrierVars, gameVars>>

NextShots ==
    \/ PlayerUpdateCall
    \/ PlayerShootAny
    \/ PlayerMoveLeft
    \/ PlayerMoveRight
    \/ PlayerBulletDeactivate

SpecShots == InitPlayerOnly /\ [][NextShots]_vars

\* C35: the player's bullet list never holds more than one bullet: when a
\* shot is accepted the bullet of the shot before has left the screen or was
\* consumed, and has been removed from the list.
C35_AtMostOnePlayerBullet ==
    /\ [](Len(pbullets) <= 1)
    /\ [][(last'.op = "Player.shoot" /\ last'.accepted) =>
             (pbullets = <<>> /\ Len(pbullets') = 1)]_vars

\* C35 witness: a bullet shot from the main loop's player position, still
\* active at its last position on the screen after 13 updates, with the
\* cooldown not yet over.
C35_Witness ==
    /\ last.op = "Player.update"
    /\ player.y = GAME_AREA_BOTTOM
    /\ hist = 13
    /\ player.cooldown = 2
    /\ Len(pbullets) = 1
    /\ pbullets[1].active
    /\ pbullets[1].y = 20

-----------------------------------------------------------------------------
(* SpecMove: a Player under move_left(), move_right() and update() calls in *)
(* any order, all the way to both edges of the screen.  last.from is the x   *)
(* the move started from.                                                    *)

\* player.move_left()
PlayerGoLeft ==
    /\ player' = move_left(player)
    /\ last' = [op |-> "Player.move_left", from |-> player.x]
    /\ UNCHANGED <<bridgeVars, alienVars, barrierVars, pbullets, gameVars, hist>>

\* player.move_right()
PlayerGoRight ==
    /\ player' = move_right(player)
    /\ last' = [op |-> "Player.move_right", from |-> player.x]
    /\ UNCHANGED <<bridgeVars, alienVars, barrierVars, pbullets, gameVars, hist>>

\* player.update() between the moves
PlayerSync ==
    /\ player' = EntityUpdate(player)
    /\ last' = [op |-> "Player.update", stale |-> FALSE]
    /\ UNCHANGED <<bridgeVars, alienVars, barrierVars, pbullets, gameVars, hist>>

NextMove ==
    \/ PlayerGoLeft
    \/ PlayerGoRight
    \/ PlayerSync

SpecMove == InitPlayerOnly /\ [][NextMove]_vars

\* C40: after any sequence of move_left and move_right calls the player's x
\* is within [0, SCREEN_WIDTH - width]; a move is a step of PLAYER_SPEED
\* where that stays inside, ends on the edge where the step would cross it,
\* and leaves x unchanged at the edge it moves towards.
C40_PlayerStaysOnScreen ==
    /\ [](0 <= player.x /\ player.x + PLAYER_WIDTH <= SCREEN_WIDTH)
    /\ [][/\ last'.op = "Player.move_left" =>
               /\ player.x - PLAYER_SPEED >= 0 => player'.x = player.x - PLAYER_SPEED
               /\ player.x - PLAYER_SPEED < 0 => player'.x = 0
               /\ player.x = 0 => player'.x = player.x
          /\ last'.op = "Player.move_right" =>
               /\ player.x + PLAYER_SPEED + PLAYER_WIDTH <= SCREEN_WIDTH =>
                     player'.x = player.x + PLAYER_SPEED
               /\ player.x + PLAYER_SPEED + PLAYER_WIDTH > SCREEN_WIDTH =>
                     player'.x + PLAYER_WIDTH = SCREEN_WIDTH
               /\ player.x + PLAYER_WIDTH = SCREEN_WIDTH => player'.x = player.x
          /\ last'.op \in {"Player.move_left", "Player.move_right"} =>
               /\ player'.y = player.y
               /\ last'.from = player.x
        ]_vars

\* C40 witness: a move_right that started less than a step from the right
\* edge and was clamped to it.
C40_Witness ==
    /\ last.op = "Player.move_right"
    /\ last.from + PLAYER_WIDTH < SCREEN_WIDTH
    /\ last.from + PLAYER_SPEED + PLAYER_WIDTH > SCREEN_WIDTH
    /\ player.x + PLAYER_WIDTH = SCREEN_WIDTH

\* C40, second scenario: a move_left at the left edge, which changes nothing.
C40_EdgeWitness ==
    /\ last.op = "Player.move_left"
    /\ last.from = 0
    /\ player.x = 0

-----------------------------------------------------------------------------
(* SpecBullets: the two bullet owners side by side: a behaviour is either an *)
(* AlienGroup under the calls of SpecAlien or a Player under the calls of    *)
(* SpecPlayer, so that a statement about both kinds of bullet is checked     *)
(* against both update loops.  The group starts one descent from the bottom  *)
(* and has up to MaxAlienBullets bullets in flight.                          *)

InitBullets == InitAlienAt(LowAlienStartYs) \/ InitPlayerOnly

NextLowAlien ==
    \/ AlienGroupUpdateUpTo(MaxAlienBullets)
    \/ AlienDeactivate
    \/ AlienBulletDeactivate

NextBullets ==
    \/ (aliens # <<>> /\ NextLowAlien)
    \/ (aliens = <<>> /\ NextPlayer)

SpecBullets == InitBullets /\ [][NextBullets]_vars

AllActive(bs) == \A i \in DOMAIN bs : bs[i].active

\* C19: immediately after AlienGroup.update returns every bullet of the
\* group's list is active, and immediately after Player.update returns every
\* bullet of the player's list is active; a bullet that was deactivated from
\* outside (by a collision) since the owner's last update is no longer in the
\* list after the owner's next update: the update drops every inactive bullet
\* it meets and keeps the active ones that stay on the screen.
C19_OnlyActiveBulletsAfterUpdate ==
    [][/\ last'.op = "AlienGroup.update" =>
            /\ AllActive(abullets')
            /\ Len(abullets') <= Len(abullets) - Stale(abullets) + 1
            /\ \A i \in DOMAIN abullets :
                  (abullets[i].active /\ abullets[i].y + ALIEN_BULLET_SPEED <= SCREEN_HEIGHT)
                     => \E k \in DOMAIN abullets' :
                           /\ abullets'[k].x = abullets[i].x
                           /\ abullets'[k].y = abullets[i].y + ALIEN_BULLET_SPEED
       /\ last'.op = "Player.update" =>
            /\ AllActive(pbullets')
            /\ Len(pbullets') <= Len(pbullets) - Stale(pbullets)
            /\ \A i \in DOMAIN pbullets :
                  (pbullets[i].active
                     /\ pbullets[i].y - PLAYER_BULLET_SPEED + BULLET_HEIGHT >= 0)
                     => \E k \in DOMAIN pbullets' :
                           /\ pbullets'[k].x = pbullets[i].x
                           /\ pbullets'[k].y = pbullets[i].y - PLAYER_BULLET_SPEED
      ]_vars

\* C19 witness: an AlienGroup.update has just dropped a bullet that a
\* collision had deactivated, and kept another one.
C19_Witness ==
    /\ last.op = "AlienGroup.update"
    /\ last.stale > 0
    /\ abullets # <<>>
    /\ AllActive(abullets)

\* C19 witness on the player's side: a Player.update has just dropped the
\* bullet that a collision had deactivated.
C19_PlayerWitness ==
    /\ last.op = "Player.update"
    /\ last.stale > 0
    /\ pbullets = <<>>

\* What the list of a player's bullets must be after Player.update, stated
\* from the positions alone: every bullet keeps its x, moves up by
\* PLAYER_BULLET_SPEED, is deactivated exactly if it is then wholly above the
\* top of the screen, and the inactive ones leave the list.
PlayerBulletsExpected(bs) ==
    SelectSeq([i \in DOMAIN bs |->
                 [x |-> bs[i].x, y |-> bs[i].y - PLAYER_BULLET_SPEED,
                  rx |-> bs[i].x, ry |-> bs[i].y - PLAYER_BULLET_SPEED,
                  active |-> bs[i].active
                             /\ ~(bs[i].y - PLAYER_BULLET_SPEED + BULLET_HEIGHT < 0)]],
              IsActive)

\* The same for an alien's bullets: down by ALIEN_BULLET_SPEED, deactivated
\* exactly if the bullet's y is then larger than the height of the screen.
AlienBulletsExpected(bs) ==
    SelectSeq([i \in DOMAIN bs |->
                 [x |-> bs[i].x, y |-> bs[i].y + ALIEN_BULLET_SPEED,
                  rx |-> bs[i].x, ry |-> bs[i].y + ALIEN_BULLET_SPEED,
                  active |-> bs[i].active
                             /\ ~(bs[i].y + ALIEN_BULLET_SPEED > SCREEN_HEIGHT)]],
              IsActive)

\* the positions of the bullets of a list
Positions(bs) == [i \in DOMAIN bs |-> <<bs[i].x, bs[i].y>>]

\* C20: a player bullet moves only vertically, by -PLAYER_BULLET_SPEED per
\* update, and its update deactivates it exactly when y + height < 0
\* afterwards; an alien bullet moves only vertically, by +ALIEN_BULLET_SPEED
\* per update, and its update deactivates it exactly when y is larger than
\* the screen height afterwards; no step changes the x of a bullet, and no
\* step other than the owner's update moves a bullet at all.
C20_BulletsMoveVertically ==
    [][/\ last'.op = "Player.update" => pbullets' = PlayerBulletsExpected(pbullets)
       /\ last'.op = "AlienGroup.update" =>
            LET old == AlienBulletsExpected(abullets)
            IN  /\ Len(abullets') >= Len(old)
                /\ SubSeq(abullets', 1, Len(old)) = old
                /\ \A k \in (Len(old) + 1)..Len(abullets') :
                      \E i \in DOMAIN aliens' :
                         abullets'[k] =
                            [x |-> aliens'[i].x + (ALIEN_WIDTH \div 2) - (BULLET_WIDTH \div 2),
                             y |-> aliens'[i].y + ALIEN_HEIGHT + ALIEN_BULLET_SPEED,
                             rx |-> aliens'[i].x + (ALIEN_WIDTH \div 2) - (BULLET_WIDTH \div 2),
                             ry |-> aliens'[i].y + ALIEN_HEIGHT + ALIEN_BULLET_SPEED,
                             active |-> TRUE]
       /\ last'.op \in {"Bullet.deactivate", "AlienBullet.deactivate",
                         "Alien.deactivate", "Player.move_left", "Player.move_right"} =>
            /\ Positions(pbullets') = Positions(pbullets)
            /\ Positions(abullets') = Positions(abullets)
       /\ last'.op = "Player.shoot" =>
            /\ Len(pbullets') >= Len(pbullets)
            /\ SubSeq(pbullets', 1, Len(pbullets)) = pbullets
      ]_vars

\* C20 witness: a Player.update has just left a bullet with its bottom edge
\* exactly on the top of the screen (y + height = 0) in the list, active.
C20_Witness ==
    /\ last.op = "Player.update"
    /\ \E i \in DOMAIN pbullets :
          pbullets[i].active /\ pbullets[i].y + BULLET_HEIGHT = 0

\* C20 witness on the alien side: an AlienGroup.update has just left a bullet
\* at y = the height of the screen in the list, active.
C20_AlienWitness ==
    /\ last.op = "AlienGroup.update"
    /\ \E i \in DOMAIN abullets :
          abullets[i].active /\ abullets[i].y = SCREEN_HEIGHT

\* C25: a deactivated alien takes no further part: an AlienGroup.update
\* leaves its x, y, direction and rectangle as they are; the group reverses
\* (and descends) only if an active alien is at an edge it moves towards,
\* whatever edge a deactivated one sits at; every bullet the update adds
\* comes from under an active alien; and is_empty and reached_bottom look at
\* the active aliens only.
C25_DeactivatedAlienTakesNoPart ==
    /\ [][last'.op = "AlienGroup.update" =>
            /\ \A i \in DOMAIN aliens :
                  ~aliens[i].active => aliens'[i] = aliens[i]
            /\ (~\E i \in DOMAIN aliens : aliens[i].active /\ should_reverse(aliens[i])) =>
                  \A i \in DOMAIN aliens :
                     /\ aliens'[i].direction = aliens[i].direction
                     /\ aliens'[i].y = aliens[i].y
            /\ \A k \in (Len(AlienBulletsExpected(abullets)) + 1)..Len(abullets') :
                  \E i \in DOMAIN aliens' :
                     /\ aliens'[i].active
                     /\ abullets'[k].x = aliens'[i].x + (ALIEN_WIDTH \div 2)
                                                       - (BULLET_WIDTH \div 2)
                     /\ abullets'[k].y = aliens'[i].y + ALIEN_HEIGHT + ALIEN_BULLET_SPEED
         ]_vars
    /\ [](/\ is_empty(aliens) = (\A i \in DOMAIN aliens : ~aliens[i].active)
          /\ reached_bottom(aliens, GAME_AREA_BOTTOM) =
                (\E i \in DOMAIN aliens :
                    aliens[i].active /\ aliens[i].y + ALIEN_HEIGHT >= GAME_AREA_BOTTOM))

\* C25 witness: an update has just moved the group on sideways, without
\* reversal or descent, past a deactivated alien left behind at the edge it
\* was moving towards.
C25_Witness ==
    /\ last.op = "AlienGroup.update"
    /\ \E i \in DOMAIN aliens, j \in DOMAIN aliens :
          /\ ~aliens[i].active /\ should_reverse(aliens[i])
          /\ aliens[j].active
          /\ aliens[j].direction = aliens[i].direction
          /\ aliens[j].y = aliens[i].y
          /\ aliens[j].col < aliens[i].col
          /\ aliens[j].x > aliens[i].x - (aliens[i].col - aliens[j].col)
                                           * (ALIEN_WIDTH + ALIEN_HORIZONTAL_SPACING)

\* C25 witness for is_empty and reached_bottom: the aliens were destroyed
\* after the update that took them to the bottom of the game area; the group
\* is empty and has not reached the bottom.
C25_BottomWitness ==
    /\ \A i \in DOMAIN aliens :
          ~aliens[i].active /\ aliens[i].y + ALIEN_HEIGHT >= GAME_AREA_BOTTOM
    /\ aliens # <<>>
    /\ is_empty(aliens)
    /\ ~reached_bottom(aliens, GAME_AREA_BOTTOM)

\* C39: at the end of every AlienGroup.update, after any sequence of ticks
\* and kills, every active alien is horizontally on screen.
C39_ActiveAliensStayOnScreen ==
    last.op = "AlienGroup.update" =>
        \A i \in DOMAIN aliens :
           aliens[i].active =>
              /\ 0 <= aliens[i].x
              /\ aliens[i].x + ALIEN_WIDTH <= SCREEN_WIDTH

\* C39 witness: after a kill, the update that has brought the remaining alien
\* to the left edge of the screen, past the place where the group would have
\* turned with the destroyed alien still in it.
C39_Witness ==
    /\ last.op = "AlienGroup.update"
    /\ \E i, j \in DOMAIN aliens :
          /\ ~aliens[i].active
          /\ aliens[j].active
          /\ aliens[j].col > aliens[i].col
          /\ aliens[j].x = 0
          /\ aliens[j].direction = -1

\* C39, at the other edge: the update that has brought the group's rightmost
\* alien flush with the right edge.
C39_RightWitness ==
    /\ last.op = "AlienGroup.update"
    /\ \E i \in DOMAIN aliens :
          /\ aliens[i].active
          /\ aliens[i].x + ALIEN_WIDTH = SCREEN_WIDTH
          /\ aliens[i].direction = 1

-----------------------------------------------------------------------------
(* SpecPrologAlien: a PrologAlienGroup under update() calls, with aliens     *)
(* deactivated from outside.  The answers of the collaborator's              *)
(* should_alien_fire are inputs of the step (`yes`: the aliens for which it  *)
(* would return True).  hist[i] counts the update() calls since alien i      *)
(* last fired (capped; at the cap before its first shot).                    *)

FireCap == firing_cooldown_time + 1

\* where the group is built: one sweep of 32 ticks to the right edge, one
\* descent away from GAME_AREA_BOTTOM
PrologStartXs == {SCREEN_WIDTH - 430}
PrologStartYs == {GAME_AREA_BOTTOM - 60}

InitPrologAlien ==
    /\ \E sx \in PrologStartXs, sy \in PrologStartYs :
          aliens = PrologAlienGroupInit(NumAlienRows, NumAlienCols, sx, sy,
                                        ALIEN_HORIZONTAL_SPACING, ALIEN_VERTICAL_SPACING)
    /\ abullets = <<>>
    /\ BarrierIdle /\ PlayerIdle /\ GameIdle /\ BridgeIdle
    /\ last = NoCall
    /\ hist = [i \in DOMAIN aliens |-> FireCap]

\* PrologAlienGroup.update(player, barriers)
PrologAlienGroupUpdate ==
    /\ ~reached_bottom(aliens, GAME_AREA_BOTTOM)
    /\ \E moved \in {PrologAlienGroupMove(aliens)} :
       \E asked \in {PrologAsked(moved)} :
       \E yes \in SUBSET (DOMAIN aliens) :
          LET fire == asked \cap yes
          IN  /\ aliens' = PrologAlienGroupFire(moved, fire)
              /\ abullets' = AlienBulletsStep(abullets \o FiredBullets(moved, fire, 1))
              /\ last' = [op |-> "PrologAlienGroup.update", asked |-> asked,
                          fired |-> fire, since |-> hist]
              /\ hist' = [i \in DOMAIN hist |->
                            IF i \in fire THEN 0
                            ELSE IF hist[i] < FireCap THEN hist[i] + 1 ELSE FireCap]
    /\ UNCHANGED <<bridgeVars, barrierVars, playerVars, gameVars>>

\* alien.deactivate() from outside, on at most MaxPrologKills aliens
PrologAlienDeactivate ==
    /\ Cardinality(DOMAIN aliens \ ActiveAliens(aliens)) < MaxPrologKills
    /\ AlienDeactivate

NextPrologAlien ==
    \/ PrologAlienGroupUpdate
    \/ PrologAlienDeactivate

SpecPrologAlien == InitPrologAlien /\ [][NextPrologAlien]_vars

\* C30: a Prolog-controlled alien has its own fire cooldown: the collaborator
\* is consulted for an alien only when its firing_cooldown is 0 (after this
\* tick's decrement), an alien that fires gets the cooldown
\* firing_cooldown_time, the cooldown of an active alien that does not fire
\* drops by one per tick down to 0, two shots of the same alien are at least
\* firing_cooldown_time ticks apart, and a tick adds one bullet per firing
\* alien.
C30_PerAlienFireCooldown ==
    [][last'.op = "PrologAlienGroup.update" =>
         /\ last'.fired \subseteq last'.asked
         /\ \A i \in DOMAIN aliens :
               /\ i \in last'.asked =>
                     aliens[i].active /\ aliens[i].firing_cooldown <= 1
               /\ i \in last'.fired =>
                     /\ aliens'[i].firing_cooldown = 30
                     /\ hist[i] + 1 >= 30
               /\ (aliens[i].active /\ i \notin last'.fired) =>
                     aliens'[i].firing_cooldown =
                        (IF aliens[i].firing_cooldown > 0
                         THEN aliens[i].firing_cooldown - 1 ELSE 0)
               /\ ~aliens[i].active =>
                     aliens'[i].firing_cooldown = aliens[i].firing_cooldown
         /\ Len(abullets') = Len(AlienBulletsExpected(abullets))
                               + Cardinality(last'.fired)
      ]_vars

\* C30 witness: an alien has just fired for the second time, exactly
\* firing_cooldown_time ticks after its first shot, while the other alien
\* was in the middle of its own cooldown.
C30_Witness ==
    /\ last.op = "PrologAlienGroup.update"
    /\ \E i \in last.fired, j \in DOMAIN aliens :
          /\ last.since[i] = 29
          /\ aliens[i].firing_cooldown = 30
          /\ j # i
          /\ aliens[j].active
          /\ aliens[j].firing_cooldown \in 1..28

-----------------------------------------------------------------------------
(* SpecOwners: the three owners of moving and colliding entities side by     *)
(* side: a behaviour is an AlienGroup under the calls of SpecAlien, started  *)
(* one descent from the bottom, a Player                                     *)
(* under the calls of SpecPlayer, or a BarrierGroup under the calls of       *)
(* SpecBarrier.  An update of one owner touches no entity of another, so the *)
(* state each owner is in when the main loop reaches its collision phase is  *)
(* the state right after that owner's update.                                *)

InitOwners == InitAlienAt(LowAlienStartYs) \/ InitPlayerOnly \/ InitBarrier

NextOwners ==
    \/ (aliens # <<>> /\ NextAlien)
    \/ (barriers # <<>> /\ NextBarrier)
    \/ (aliens = <<>> /\ barriers = <<>> /\ NextPlayer)

SpecOwners == InitOwners /\ [][NextOwners]_vars

\* the rectangle of e is where e is
RectAtPosition(e) == e.rx = e.x /\ e.ry = e.y

\* C22: when the main loop reaches its collision phase, that is right after
\* player.update(), aliens.update() and barriers.update(), the rectangle of
\* the player, of every player bullet, of every active alien, of every alien
\* bullet and of every barrier segment has the x and y of the entity's
\* position; the deactivations of the collision phase leave it so.
C22_RectsAtPositionsWhenColliding ==
    /\ last.op = "Player.update" =>
          /\ RectAtPosition(player)
          /\ \A i \in DOMAIN pbullets : RectAtPosition(pbullets[i])
    /\ last.op = "Bullet.deactivate" =>
          \A i \in DOMAIN pbullets : RectAtPosition(pbullets[i])
    /\ last.op \in {"AlienGroup.update", "Alien.deactivate", "AlienBullet.deactivate"} =>
          /\ \A i \in ActiveAliens(aliens) : RectAtPosition(aliens[i])
          /\ \A i \in DOMAIN abullets : RectAtPosition(abullets[i])
    /\ last.op \in {"BarrierGroup.update", "BarrierGroup.check_collision"} =>
          \A b \in DOMAIN barriers :
             \A k \in DOMAIN barriers[b].segments :
                RectAtPosition(barriers[b].segments[k])

\* C22 witness: player.update() has just run on a player that an arrow key
\* moved away from where it was constructed, with a bullet in flight.
C22_Witness ==
    /\ last.op = "Player.update"
    /\ player.x # IdlePlayer.x
    /\ RectAtPosition(player)
    /\ pbullets # <<>>
    /\ pbullets[1].y # Bullet(player.x, player.y).y

-----------------------------------------------------------------------------
(* Spec: the main loop of space_invaders.py.                                 *)
(*                                                                           *)
(* One pass of the loop is the events of the frame (EventQuit, EventReturn,  *)
(* EventSpace, each one KEYDOWN/QUIT event) followed by the frame body,      *)
(* which pc walks through: FrameUpdate, then PlayerHit once per alien bullet *)
(* that hits the player, then FrameFinish.  The objects keep their           *)
(* whole non-geometric state (flags, lives, timers, score); positions are    *)
(* not advanced here (every record keeps the position its constructor gave   *)
(* it, no arrow key is held) and each geometric test of the loop             *)
(* (collides_with, a bullet leaving the screen, reached_bottom, a random     *)
(* should_fire draw) is an input of the step, guarded by the non-geometric   *)
(* conditions the code tests first.  The barriers' own state is the subject  *)
(* of SpecBarrier and is not tracked here.                                   *)

\* history: hist.best is the highest final score of the games completed so
\* far; hist.armed says that take_damage has armed invulnerability and
\* hist.since counts the Player.update calls since it last did (capped).
SinceCap == invulnerable_duration + 1

NoHistory == [best |-> 0, armed |-> FALSE, since |-> SinceCap]

Max(a, b) == IF a > b THEN a ELSE b

\* initialize_game_objects
InitAliens ==
    AlienGroupInit(NumAlienRows, GameAlienCols, 50, GAME_AREA_TOP + 50,
                   ALIEN_HORIZONTAL_SPACING, ALIEN_VERTICAL_SPACING)

InitPlayer == Player(SCREEN_WIDTH \div 2, GAME_AREA_BOTTOM, 3)

Init ==
    /\ gs = GameStateManager
    /\ game_won = FALSE
    /\ running = TRUE
    /\ pc = "events"
    /\ player = InitPlayer
    /\ pbullets = <<>>
    /\ aliens = InitAliens
    /\ abullets = <<>>
    /\ BarrierIdle /\ BridgeIdle
    /\ last = NoCall
    /\ hist = NoHistory

\* pygame.QUIT or KEYDOWN K_q
EventQuit ==
    /\ running /\ pc = "events"
    /\ running' = FALSE
    /\ last' = NoCall
    /\ UNCHANGED <<bridgeVars, alienVars, barrierVars, playerVars, gs, game_won, pc, hist>>

\* A plausible slip: RETURN starts a game from the menu only.
EventReturn_MenuOnly ==
    /\ running /\ pc = "events"
    /\ IF is_menu(gs)
       THEN /\ gs' = start_game(gs)
            /\ player' = InitPlayer
            /\ pbullets' = <<>>
            /\ aliens' = InitAliens
            /\ abullets' = <<>>
            /\ game_won' = FALSE
            /\ last' = [op |-> "GameStateManager.start_game", from |-> gs.current_state]
            /\ hist' = NoHistory
       ELSE /\ last' = NoCall
            /\ UNCHANGED <<alienVars, playerVars, gs, game_won, hist>>
    /\ UNCHANGED <<bridgeVars, barrierVars, running, pc>>

\* KEYDOWN K_RETURN: from the menu, the game-over screen or the win screen a
\* new game starts with new objects; during play the key does nothing.
EventReturn ==
    /\ running /\ pc = "events"
    /\ IF is_menu(gs) \/ is_game_over(gs) \/ game_won
       THEN /\ gs' = start_game(gs)
            /\ player' = InitPlayer
            /\ pbullets' = <<>>
            /\ aliens' = InitAliens
            /\ abullets' = <<>>
            /\ game_won' = FALSE
            /\ last' = [op |-> "GameStateManager.start_game", from |-> gs.current_state]
            \* a game won and not lost is completed by this restart
            /\ hist' = [NoHistory EXCEPT !.best =
                          IF is_playing(gs) THEN Max(hist.best, gs.score) ELSE hist.best]
       ELSE /\ last' = NoCall
            /\ UNCHANGED <<alienVars, playerVars, gs, game_won, hist>>
    /\ UNCHANGED <<bridgeVars, barrierVars, running, pc>>

\* KEYDOWN K_SPACE while playing: player.shoot()
EventSpace ==
    /\ running /\ pc = "events"
    /\ is_playing(gs)
    /\ player.cooldown = 0 => Len(pbullets) < MaxPlayerBullets
    /\ LET r == PlayerShoot(player, pbullets)
       IN  /\ player' = r.player
           /\ pbullets' = r.bullets
    /\ last' = NoCall
    /\ UNCHANGED <<bridgeVars, alienVars, barrierVars, gs, game_won, running, pc, hist>>

\* The frame body in the menu and on the game-over screen: drawing only.
FrameIdle ==
    /\ running /\ pc = "events"
    /\ ~is_playing(gs)
    /\ last' = NoCall
    /\ UNCHANGED <<bridgeVars, alienVars, barrierVars, playerVars, gameVars, hist>>

\* The bullets of a list after its owner's update: every bullet moves; those
\* of `gone` leave the screen and are deactivated; inactive bullets are removed.
BulletsAfterUpdate(bs, gone) ==
    SelectSeq([i \in DOMAIN bs |-> IF i \in gone THEN Deactivate(bs[i]) ELSE bs[i]],
              IsActive)

ActiveBullets(bs) == {i \in DOMAIN bs : bs[i].active}

\* "Player bullets hitting aliens" without bullet.deactivate()
RECURSIVE BulletsHitAliens_Piercing(_, _, _, _, _)
BulletsHitAliens_Piercing(bs, grp, g, target, i) ==
    IF i > Len(bs) THEN [bullets |-> bs, aliens |-> grp, gs |-> g]
    ELSE IF bs[i].active /\ target[i] # 0 /\ grp[target[i]].active
         THEN BulletsHitAliens_Piercing(bs,
                               [grp EXCEPT ![target[i]] = Deactivate(grp[target[i]])],
                               add_score(g, grp[target[i]].points), target, i + 1)
         ELSE BulletsHitAliens_Piercing(bs, grp, g, target, i + 1)

\* "Player bullets hitting aliens" without the test that the alien is active
RECURSIVE BulletsHitAliens_AnyAlien(_, _, _, _, _)
BulletsHitAliens_AnyAlien(bs, grp, g, target, i) ==
    IF i > Len(bs) THEN [bullets |-> bs, aliens |-> grp, gs |-> g]
    ELSE IF bs[i].active /\ target[i] # 0
         THEN BulletsHitAliens_AnyAlien([bs EXCEPT ![i] = Deactivate(bs[i])],
                               [grp EXCEPT ![target[i]] = Deactivate(grp[target[i]])],
                               add_score(g, grp[target[i]].points), target, i + 1)
         ELSE BulletsHitAliens_AnyAlien(bs, grp, g, target, i + 1)

\* "Player bullets hitting aliens": for each active player bullet in list
\* order, the first active alien it collides with is deactivated together
\* with the bullet and scored.  `target` is the collision input: the alien
\* bullet i collides with first, 0 for none.
RECURSIVE BulletsHitAliens(_, _, _, _, _)
BulletsHitAliens(bs, grp, g, target, i) ==
    IF i > Len(bs) THEN [bullets |-> bs, aliens |-> grp, gs |-> g]
    ELSE IF bs[i].active /\ target[i] # 0 /\ grp[target[i]].active
         THEN BulletsHitAliens([bs EXCEPT ![i] = Deactivate(bs[i])],
                               [grp EXCEPT ![target[i]] = Deactivate(grp[target[i]])],
                               add_score(g, grp[target[i]].points), target, i + 1)
         ELSE BulletsHitAliens(bs, grp, g, target, i + 1)

\* The frame body while playing, up to "Player bullets hitting aliens":
\* player.update(), aliens.update(), barriers.update(), then the first
\* collision loop.  Inputs: the player bullets and alien bullets that leave
\* the screen, the aliens whose should_fire() draw succeeds, and the alien
\* each player bullet collides with.
FrameUpdate ==
    /\ running /\ pc = "events"
    /\ is_playing(gs)
    /\ \E pgone \in SUBSET ActiveBullets(pbullets),
          agone \in SUBSET ActiveBullets(abullets),
          fire \in FireChoices(aliens, abullets) :
          \E moved \in {BulletsAfterUpdate(pbullets, pgone)} :
          \E target \in [DOMAIN moved -> (DOMAIN aliens) \cup {0}] :
          \E r \in {BulletsHitAliens(moved, aliens, gs, target, 1)} :
             /\ player' = PlayerUpdate(player)
             /\ pbullets' = r.bullets
             /\ aliens' = r.aliens
             /\ gs' = r.gs
             /\ abullets' = BulletsAfterUpdate(
                                abullets \o FiredBullets(aliens, fire, 1), agone)
    /\ hist' = [hist EXCEPT !.since = IF hist.since < SinceCap
                                      THEN hist.since + 1 ELSE SinceCap]
    /\ pc' = "player"
    /\ last' = NoCall
    /\ UNCHANGED <<bridgeVars, barrierVars, game_won, running>>

\* "Alien bullets hitting player", one colliding bullet: bullet.deactivate()
\* and player.take_damage(), and game_state.game_over() if that returns True.
\* collides_with needs the bullet and the player active.
PlayerHit ==
    /\ running /\ pc = "player"
    /\ player.active
    /\ \E j \in ActiveBullets(abullets) :
          LET r == PlayerTakeDamage(player)
              arms == r.player.invulnerable /\ ~player.invulnerable
          IN  /\ abullets' = [abullets EXCEPT ![j] = Deactivate(abullets[j])]
              /\ player' = r.player
              /\ gs' = IF r.ret THEN game_over(gs) ELSE gs
              /\ last' = [op |-> "Player.take_damage", ret |-> r.ret,
                          was_invulnerable |-> player.invulnerable,
                          state |-> gs.current_state]
              /\ hist' = [hist EXCEPT
                            !.best = IF r.ret THEN Max(hist.best, gs.score) ELSE hist.best,
                            !.armed = IF arms THEN TRUE ELSE hist.armed,
                            !.since = IF arms THEN 0 ELSE hist.since]
    /\ UNCHANGED <<bridgeVars, aliens, barrierVars, pbullets, game_won, running, pc>>

\* The rest of the frame body, once no further alien bullet collides with the
\* player: "Bullets hitting barriers", the win check and the reached-bottom
\* check.  Inputs: the bullets for which barriers.check_collision returns True
\* (they are deactivated) and `bottom`, the value of
\* aliens.reached_bottom(GAME_AREA_BOTTOM), which needs an active alien.
FrameFinish ==
    /\ running /\ pc = "player"
    /\ \E phit \in SUBSET ActiveBullets(pbullets),
          ahit \in SUBSET ActiveBullets(abullets) :
          /\ pbullets' = [i \in DOMAIN pbullets |->
                            IF i \in phit THEN Deactivate(pbullets[i]) ELSE pbullets[i]]
          /\ abullets' = [i \in DOMAIN abullets |->
                            IF i \in ahit THEN Deactivate(abullets[i]) ELSE abullets[i]]
    /\ game_won' = IF is_empty(aliens) THEN TRUE ELSE game_won
    /\ \E bottom \in BOOLEAN :
          /\ bottom => ~is_empty(aliens)
          /\ gs' = IF bottom THEN game_over(gs) ELSE gs
          /\ hist' = [hist EXCEPT !.best = IF bottom THEN Max(hist.best, gs.score)
                                           ELSE hist.best]
          /\ last' = IF bottom
                     THEN [op |-> "GameStateManager.game_over", from |-> gs.current_state]
                     ELSE NoCall
    /\ pc' = "events"
    /\ UNCHANGED <<bridgeVars, aliens, barrierVars, player, running>>

Next ==
    \/ EventQuit
    \/ EventReturn
    \/ EventSpace
    \/ FrameIdle
    \/ FrameUpdate
    \/ PlayerHit
    \/ FrameFinish

Spec == Init /\ [][Next]_vars

\* C6: once take_damage has armed invulnerability, life loss is blocked for
\* exactly invulnerable_duration = 60 ticks, the arming tick being the first:
\* a take_damage call in the rest of the arming tick and in the 59 ticks that
\* follow (hist.since counts the player.update calls since the arming) finds
\* the player invulnerable and leaves lives unchanged; the 60th player.update
\* ends the invulnerability, and a hit from then on costs a life.
C6_BlockedForExactly60Ticks ==
    [][(last'.op = "Player.take_damage" /\ hist.armed) =>
          /\ hist.since < invulnerable_duration =>
                player.invulnerable /\ player'.lives = player.lives
          /\ hist.since >= invulnerable_duration =>
                ~player.invulnerable /\ player'.lives = player.lives - 1]_vars

\* C6: a hit ignored in the last tick of the window: 59 player.update calls
\* after the arming, the timer at 1.
C6_Witness ==
    /\ last.op = "Player.take_damage"
    /\ last.was_invulnerable
    /\ hist.armed
    /\ hist.since = invulnerable_duration - 1
    /\ player.invulnerable
    /\ player.invulnerable_time = 1
    /\ player.lives = 2

\* C7: take_damage on an invulnerable player returns False and leaves the
\* player as it was: lives, active, invulnerable and invulnerable_time.
C7_InvulnerableHitChangesNothing ==
    [][(last'.op = "Player.take_damage" /\ player.invulnerable) =>
          /\ last'.ret = FALSE
          /\ player' = player]_vars

\* C7: a hit ignored in a tick after the arming one, the timer part run down.
C7_Witness ==
    /\ last.op = "Player.take_damage"
    /\ last.was_invulnerable
    /\ ~last.ret
    /\ player.invulnerable
    /\ player.lives = 2
    /\ player.invulnerable_time < invulnerable_duration

\* C8: take_damage on a player that is not invulnerable lowers lives by one;
\* if lives reach 0 the player is deactivated, True is returned and no
\* invulnerability is armed; otherwise False is returned, the player stays
\* active and invulnerability is armed for invulnerable_duration.
C8_VulnerableHitCostsALife ==
    [][(last'.op = "Player.take_damage" /\ ~player.invulnerable) =>
          /\ player'.lives = player.lives - 1
          /\ IF player'.lives = 0
             THEN /\ last'.ret = TRUE
                  /\ ~player'.active
                  /\ ~player'.invulnerable
                  /\ player'.invulnerable_time = player.invulnerable_time
             ELSE /\ last'.ret = FALSE
                  /\ player'.active
                  /\ player'.invulnerable
                  /\ player'.invulnerable_time = invulnerable_duration]_vars

\* C8: the hit that takes the last life: lives 0, inactive, True returned.
C8_Witness ==
    /\ last.op = "Player.take_damage"
    /\ ~last.was_invulnerable
    /\ last.ret
    /\ player.lives = 0
    /\ ~player.active
    /\ ~player.invulnerable
    /\ is_game_over(gs)

C9_HighScoreNeverDecreases == [][gs'.high_score >= gs.high_score]_vars

\* C10: start_game leaves the manager in PLAYING with score 0 and the high
\* score it had, whatever the state it is called in.
C10_StartGameResetsScoreOnly ==
    [][last'.op = "GameStateManager.start_game" =>
          /\ gs'.current_state = "PLAYING"
          /\ gs'.score = 0
          /\ gs'.high_score = gs.high_score]_vars

\* C10: a restart from the win screen (state PLAYING) with a high score kept
\* from an earlier, lost game.
C10_Witness ==
    /\ last.op = "GameStateManager.start_game"
    /\ last.from = "PLAYING"
    /\ gs.current_state = "PLAYING"
    /\ gs.score = 0
    /\ gs.high_score > 0

\* C11: game_over is only invoked while the state is PLAYING, be it after
\* take_damage returned True or after reached_bottom returned True.
C11_GameOverOnlyFromPlaying ==
    /\ (last.op = "Player.take_damage" /\ last.ret) => last.state = "PLAYING"
    /\ last.op = "GameStateManager.game_over" => last.from = "PLAYING"

\* C11, the part that holds: the game_over call that follows take_damage is
\* made in state PLAYING.
C11_FatalHitCallsFromPlaying ==
    (last.op = "Player.take_damage" /\ last.ret) => last.state = "PLAYING"

\* C13: the score only grows in a step taken in state PLAYING that stays in
\* PLAYING (add_score precedes every game_over call of its tick), the score
\* does not change in a step that begins and ends in MENU or GAME_OVER, and
\* high_score >= score whenever the state is GAME_OVER.
C13_ScoreOnlyWhilePlaying ==
    [][/\ gs'.score > gs.score => (is_playing(gs) /\ is_playing(gs'))
       /\ (~is_playing(gs) /\ ~is_playing(gs')) => gs'.score = gs.score
       /\ is_game_over(gs') => gs'.high_score >= gs'.score]_vars

\* C13: a game lost by the last hit after it scored: GAME_OVER with the score
\* as the high score.
C13_Witness ==
    /\ last.op = "Player.take_damage"
    /\ last.ret
    /\ is_game_over(gs)
    /\ gs.score > 0
    /\ gs.high_score = gs.score

C33_BottomNeverEndsWonGame ==
    [][(pc = "player" /\ pc' = "events" /\ is_game_over(gs') /\ ~is_game_over(gs))
          => ~game_won']_vars

\* C31: in the main loop every bullet causes at most one effect in its
\* lifetime.  Each effect spends a bullet that was active: the aliens killed
\* by the first collision loop are as many as the player bullets it leaves
\* inactive, a take_damage call deactivates exactly one alien bullet, and
\* outside the collision loops no key press kills an alien, scores or costs
\* a life.  A spent bullet stays as it is for the rest of the tick, and the
\* next update drops it from its list, so that every bullet the collision
\* loops of a tick start from is active.
C31_OneEffectPerBullet ==
    [][LET Spent(bs) == {i \in DOMAIN bs : ~bs[i].active}
           kills == {k \in DOMAIN aliens : aliens[k].active /\ ~aliens'[k].active}
       IN  /\ (pc = "events" /\ pc' = "player") =>
                 /\ Cardinality(kills) = Cardinality(Spent(pbullets'))
                 /\ Len(pbullets') <= Cardinality(ActiveBullets(pbullets))
                 /\ Spent(abullets') = {}
           /\ pc = "player" =>
                 /\ kills = {}
                 /\ DOMAIN pbullets' = DOMAIN pbullets
                 /\ DOMAIN abullets' = DOMAIN abullets
                 /\ \A i \in Spent(pbullets) : pbullets'[i] = pbullets[i]
                 /\ \A j \in Spent(abullets) : abullets'[j] = abullets[j]
           /\ last'.op = "Player.take_damage" =>
                 /\ Cardinality(Spent(abullets') \ Spent(abullets)) = 1
                 /\ pbullets' = pbullets
           /\ (pc = "events" /\ pc' = "events" /\ is_playing(gs)
                 /\ last'.op # "GameStateManager.start_game") =>
                 /\ aliens' = aliens
                 /\ gs'.score = gs.score
                 /\ player'.lives = player.lives]_vars

\* C31: in one tick a player bullet is spent on an alien and an alien bullet
\* on the player.
C31_Witness ==
    /\ pc = "player"
    /\ last.op = "Player.take_damage"
    /\ \E i \in DOMAIN pbullets : ~pbullets[i].active
    /\ \E j \in DOMAIN abullets : ~abullets[j].active
    /\ \E k \in DOMAIN aliens : ~aliens[k].active
    /\ gs.score > 0

-----------------------------------------------------------------------------
(* SpecKeys: the main loop of Spec with the event handler taken key by key:  *)
(* one KEYDOWN event of any of Keys in any state, recorded in last.          *)

\* K_LEFT stands for the keys the handler has no branch for
Keys == {"K_q", "K_RETURN", "K_SPACE", "K_LEFT"}

\* The handler with K_SPACE shooting in every state
HandleKeyDown_SpaceAnywhere ==
    /\ running /\ pc = "events"
    /\ \E k \in Keys :
          /\ k = "K_SPACE" => (player.cooldown = 0 => Len(pbullets) < MaxPlayerBullets)
          /\ last' = [op |-> "KEYDOWN", key |-> k, from |-> gs.current_state,
                      won |-> game_won]
          /\ running' = (k # "K_q")
          /\ IF k = "K_RETURN" /\ (is_menu(gs) \/ is_game_over(gs) \/ game_won)
             THEN /\ gs' = start_game(gs)
                  /\ player' = InitPlayer
                  /\ pbullets' = <<>>
                  /\ aliens' = InitAliens
                  /\ abullets' = <<>>
                  /\ game_won' = FALSE
                  /\ hist' = [NoHistory EXCEPT !.best =
                                IF is_playing(gs) THEN Max(hist.best, gs.score)
                                ELSE hist.best]
             ELSE IF k = "K_SPACE"
             THEN /\ LET r == PlayerShoot(player, pbullets)
                     IN  /\ player' = r.player
                         /\ pbullets' = r.bullets
                  /\ UNCHANGED <<alienVars, gs, game_won, hist>>
             ELSE UNCHANGED <<alienVars, playerVars, gs, game_won, hist>>
    /\ UNCHANGED <<bridgeVars, barrierVars, pc>>

\* One KEYDOWN event: K_q ends the loop; K_RETURN starts a new game with new
\* objects from the menu, the game-over screen or the win screen; K_SPACE
\* calls player.shoot() while playing; nothing else has a branch.
HandleKeyDown ==
    /\ running /\ pc = "events"
    /\ \E k \in Keys :
          /\ (k = "K_SPACE" /\ is_playing(gs)) =>
                (player.cooldown = 0 => Len(pbullets) < MaxPlayerBullets)
          /\ last' = [op |-> "KEYDOWN", key |-> k, from |-> gs.current_state,
                      won |-> game_won]
          /\ running' = (k # "K_q")
          /\ IF k = "K_RETURN" /\ (is_menu(gs) \/ is_game_over(gs) \/ game_won)
             THEN /\ gs' = start_game(gs)
                  /\ player' = InitPlayer
                  /\ pbullets' = <<>>
                  /\ aliens' = InitAliens
                  /\ abullets' = <<>>
                  /\ game_won' = FALSE
                  /\ hist' = [NoHistory EXCEPT !.best =
                                IF is_playing(gs) THEN Max(hist.best, gs.score)
                                ELSE hist.best]
             ELSE IF k = "K_SPACE" /\ is_playing(gs)
             THEN /\ LET r == PlayerShoot(player, pbullets)
                     IN  /\ player' = r.player
                         /\ pbullets' = r.bullets
                  /\ UNCHANGED <<alienVars, gs, game_won, hist>>
             ELSE UNCHANGED <<alienVars, playerVars, gs, game_won, hist>>
    /\ UNCHANGED <<bridgeVars, barrierVars, pc>>

NextKeys ==
    \/ HandleKeyDown
    \/ FrameIdle
    \/ FrameUpdate
    \/ PlayerHit
    \/ FrameFinish

SpecKeys == Init /\ [][NextKeys]_vars

\* C38: while the state is Menu or GameOver the simulation is frozen.  A
\* frame or a key press between two frames leaves the player, its bullets,
\* the aliens, their bullets, the score and game_won as they are, except
\* K_RETURN, after which the state is Playing with score 0 and new objects,
\* and K_q, which only stops the loop.  K_RETURN during a game that is not
\* finished changes nothing.
C38_FrozenOutsidePlay ==
    [][/\ (pc = "events" /\ ~is_playing(gs)) =>
             IF last'.op = "KEYDOWN" /\ last'.key = "K_RETURN"
             THEN /\ is_playing(gs') /\ gs'.score = 0 /\ ~game_won'
                  /\ player' = InitPlayer /\ pbullets' = <<>>
                  /\ aliens' = InitAliens /\ abullets' = <<>>
             ELSE /\ UNCHANGED <<alienVars, playerVars, gs, game_won>>
                  /\ running' = ~(last'.op = "KEYDOWN" /\ last'.key = "K_q")
       /\ (last'.op = "KEYDOWN" /\ last'.key = "K_RETURN"
              /\ is_playing(gs) /\ ~game_won) =>
             UNCHANGED <<alienVars, playerVars, gs, game_won, running>>]_vars

\* C38: K_SPACE pressed on the game-over screen that follows a game with a
\* kill, a bullet of each side still in its list.
C38_Witness ==
    /\ last.op = "KEYDOWN" /\ last.key = "K_SPACE"
    /\ last.from = "GAME_OVER"
    /\ is_game_over(gs)
    /\ gs.score > 0
    /\ pbullets # <<>> /\ abullets # <<>>

\* C38: K_RETURN pressed during a game with a life lost and a shot in flight.
C38_ReturnWitness ==
    /\ last.op = "KEYDOWN" /\ last.key = "K_RETURN"
    /\ last.from = "PLAYING" /\ ~last.won
    /\ is_playing(gs)
    /\ pbullets # <<>>
    /\ player.lives = 2

-----------------------------------------------------------------------------
(* SpecPlay: the main loop while the window stays open (no QUIT event), with  *)
(* the loop running on (a frame body follows the events of a frame) and a    *)
(* player who lets every game end and presses RETURN on the screen that      *)
(* follows.  Every finite run of the loop without QUIT can be continued this *)
(* way, so what SpecPlay always reaches again is reachable from every state  *)
(* of the loop.                                                              *)

\* a frame that ends with the game lost or won
GameEnds == FrameFinish /\ (is_game_over(gs') \/ game_won')

\* RETURN on the menu, the game-over screen or the win screen
Restart == EventReturn /\ last'.op = "GameStateManager.start_game"

NextPlay ==
    \/ EventReturn
    \/ EventSpace
    \/ FrameIdle
    \/ FrameUpdate
    \/ PlayerHit
    \/ FrameFinish

SpecPlay ==
    /\ Init
    /\ [][NextPlay]_vars
    /\ WF_vars(FrameUpdate)
    /\ SF_vars(GameEnds)
    /\ SF_vars(Restart)

\* C12: from every state of the loop a new game (state PLAYING, score 0, just
\* started by start_game) is reached again, and return_to_menu takes the
\* manager to MENU from whatever state it is in.
C12_NewGameAlwaysReachable ==
    /\ [](return_to_menu(gs).current_state = "MENU")
    /\ []<>(last.op = "GameStateManager.start_game" /\ is_playing(gs) /\ gs.score = 0)

\* C12: a new game started from the game-over screen of a game that scored.
C12_Witness ==
    /\ last.op = "GameStateManager.start_game"
    /\ last.from = "GAME_OVER"
    /\ is_playing(gs)
    /\ gs.score = 0
    /\ hist.best > 0

-----------------------------------------------------------------------------
(* SpecScore: the main loop with a grid of ScoreAlienRows rows and one       *)
(* column, in games in which no alien fires: a game ends when the aliens     *)
(* reach the bottom or all of them are destroyed.  The actions are those of  *)
(* Spec; RETURN constructs the taller grid.                                  *)

ScoreAliens ==
    AlienGroupInit(ScoreAlienRows, 1, 50, GAME_AREA_TOP + 50,
                   ALIEN_HORIZONTAL_SPACING, ALIEN_VERTICAL_SPACING)

InitScore ==
    /\ gs = GameStateManager
    /\ game_won = FALSE
    /\ running = TRUE
    /\ pc = "events"
    /\ player = InitPlayer
    /\ pbullets = <<>>
    /\ aliens = ScoreAliens
    /\ abullets = <<>>
    /\ BarrierIdle /\ BridgeIdle
    /\ last = NoCall
    /\ hist = NoHistory

\* KEYDOWN K_RETURN, as EventReturn
ScoreReturn ==
    /\ running /\ pc = "events"
    /\ is_menu(gs) \/ is_game_over(gs) \/ game_won
    /\ gs' = start_game(gs)
    /\ player' = InitPlayer
    /\ pbullets' = <<>>
    /\ aliens' = ScoreAliens
    /\ abullets' = <<>>
    /\ game_won' = FALSE
    /\ last' = [op |-> "GameStateManager.start_game", from |-> gs.current_state]
    /\ hist' = NoHistory
    /\ UNCHANGED <<bridgeVars, barrierVars, running, pc>>

\* the frame body of a tick in which no alien's should_fire() draw succeeds
ScoreFrameUpdate == FrameUpdate /\ abullets' = <<>>

NextScore ==
    \/ ScoreReturn
    \/ EventSpace
    \/ FrameIdle
    \/ ScoreFrameUpdate
    \/ FrameFinish

SpecScore == InitScore /\ [][NextScore]_vars

\* the value of an alien by its row
PointsOfRow(row) ==
    CASE row = 0 -> 30
      [] row \in {1, 2} -> 20
      [] row \in {3, 4} -> 10
      [] OTHER -> 10

\* the sum of the values of the aliens of grp destroyed so far, from alien k on
RECURSIVE DestroyedValue(_, _)
DestroyedValue(grp, k) ==
    IF k > Len(grp) THEN 0
    ELSE (IF grp[k].active THEN 0 ELSE PointsOfRow(grp[k].row)) + DestroyedValue(grp, k + 1)

Destroyed(grp) == {i \in DOMAIN grp : ~grp[i].active}

\* C24: within one game the score equals the sum of the point values of the
\* aliens destroyed so far in that game, an alien's value being fixed by its
\* row (30, 20, 20, 10, 10 for rows 0..4, 10 for any other row); so each
\* alien is scored exactly once.  And one player bullet scores at most one
\* alien: a tick destroys no more aliens than it uses up bullets, and its
\* score grows by the values of exactly the aliens it destroys.
C24_ScoreIsValueOfDestroyedAliens ==
    /\ [](gs.score = DestroyedValue(aliens, 1))
    /\ [][pc' = "player" =>
            /\ Destroyed(aliens) \subseteq Destroyed(aliens')
            /\ Cardinality(Destroyed(aliens') \ Destroyed(aliens))
                  <= Cardinality({i \in DOMAIN pbullets' : ~pbullets'[i].active})
            /\ gs'.score - gs.score = DestroyedValue(aliens', 1) - DestroyedValue(aliens, 1)
         ]_vars

\* C24 witness: a game in which the aliens of rows 0, 1 and 5 have been
\* destroyed and the others not: the score is 30 + 20 + 10.
C24_Witness ==
    /\ is_playing(gs)
    /\ Destroyed(aliens) = {1, 2, 6}
    /\ gs.score = 60

-----------------------------------------------------------------------------
(* SpecBridge: a decision collaborator (CLIPrologBridge or PrologBridge)     *)
(* under the calls PrologAlienGroup.update and main make on it: update_state,*)
(* should_alien_fire, set_strategy.  The file system, the swipl process and  *)
(* the Prolog engine are the environment: a file write succeeds or raises,   *)
(* the process is spawned or not, and a query that runs succeeds, fails,     *)
(* ends in an error, is killed, or never ends.  bridge.call is "idle"        *)
(* between calls, "waiting" while should_alien_fire waits for the query, and *)
(* "raised" once a call has raised into its caller (PrologAlienGroup.update  *)
(* and main have no handler, so the loop ends there).                        *)

BridgeKinds == {"cli", "pyswip"}

\* How a query that ends can end, as seen by CLIPrologBridge._execute_query:
\* the fate of the query, the return code, stderr, and what was written to
\* the result file.
CLIProcessOutcomes ==
    [query : {"succeeded"}, rc_nonzero : {FALSE}, stderr : BOOLEAN, writes : {"true"}]
    \cup [query : {"failed"}, rc_nonzero : {FALSE}, stderr : BOOLEAN, writes : {"false"}]
    \cup [query : {"error"}, rc_nonzero : BOOLEAN, stderr : {TRUE}, writes : {"nothing"}]
    \cup [query : {"killed"}, rc_nonzero : {TRUE}, stderr : BOOLEAN,
          writes : {"nothing", "empty"}]

\* How prolog.query can end for PrologBridge: solutions, none, or an exception.
PyswipOutcomes == {"succeeded", "failed", "error"}

\* The game states handed to update_state: the position of the player and of
\* the aliens (they stand for the coordinates of one tick), the ids of the
\* active aliens, and whether the barrier is active.
Snapshots == [pos : 0..MaxSnapshotPos, aliens : SUBSET (1..MaxAlienId), barrier : BOOLEAN]

\* history: hist.failed says that a write or an assertion of some call has
\* failed; hist.updated says that update_state has been called, and
\* hist.snapshot is the game state of the last such call.
NoBridgeHistory ==
    [failed |-> FALSE, updated |-> FALSE,
     snapshot |-> [pos |-> 0, aliens |-> {}, barrier |-> FALSE]]

InitBridge ==
    /\ \E kind \in BridgeKinds : bridge = NewBridge(kind)
    /\ AlienIdle /\ BarrierIdle /\ PlayerIdle /\ GameIdle
    /\ last = NoCall
    /\ hist = NoBridgeHistory

\* set_strategy(strategy).  CLIPrologBridge: the strategy is stored, then the
\* state file is rewritten with no handler around the write.  PrologBridge:
\* the strategy is stored, then asserted inside try/except.
BridgeSetStrategy ==
    /\ bridge.call = "idle"
    /\ \E strategy \in 0..MaxStrategy, io_ok \in BOOLEAN :
          /\ bridge' = [bridge EXCEPT
                           !.current_strategy = strategy,
                           !.state = IF ~io_ok THEN @
                                     ELSE IF bridge.kind = "cli" THEN StrategyFacts(strategy)
                                     ELSE @ \cup StrategyFacts(strategy),
                           !.call = IF bridge.kind = "cli" /\ ~io_ok THEN "raised" ELSE "idle"]
          /\ last' = [op |-> "set_strategy", query |-> "none",
                      ret |-> IF bridge.kind = "cli" /\ ~io_ok THEN "raised" ELSE "None"]
          /\ hist' = [hist EXCEPT !.failed = @ \/ ~io_ok]
    /\ UNCHANGED <<alienVars, barrierVars, playerVars, gameVars>>

\* update_state(player, aliens, barriers, screen_size).  CLIPrologBridge: the
\* facts are built and the state file is rewritten with no handler around the
\* write.  PrologBridge: the facts are asserted inside try/except.
BridgeUpdateState ==
    /\ bridge.call = "idle"
    /\ \E snapshot \in Snapshots, io_ok \in BOOLEAN :
          /\ bridge' = [bridge EXCEPT
                           !.state = IF ~io_ok THEN @
                                     ELSE IF bridge.kind = "cli"
                                          THEN SnapshotFacts(snapshot, bridge.current_strategy)
                                     ELSE @ \cup GameFacts(snapshot),
                           !.call = IF bridge.kind = "cli" /\ ~io_ok THEN "raised" ELSE "idle"]
          /\ last' = [op |-> "update_state", query |-> "none",
                      ret |-> IF bridge.kind = "cli" /\ ~io_ok THEN "raised" ELSE "None"]
          /\ hist' = [hist EXCEPT !.failed = @ \/ ~io_ok, !.updated = TRUE,
                                  !.snapshot = snapshot]
    /\ UNCHANGED <<alienVars, barrierVars, playerVars, gameVars>>

\* should_alien_fire(alien_id), up to the point where the query runs.
\* CLIPrologBridge: the query file is written outside the try block (a failed
\* write raises), then subprocess.run spawns swipl inside it (a failed spawn
\* is caught and False returned) and waits for it without a timeout.
\* PrologBridge: prolog.query runs inside try/except.
BridgeShouldAlienFire ==
    /\ bridge.call = "idle"
    /\ \E alien_id \in 1..MaxAlienId, io_ok \in BOOLEAN, spawn_ok \in BOOLEAN :
          IF bridge.kind = "cli" /\ ~io_ok
          THEN /\ bridge' = [bridge EXCEPT !.call = "raised"]
               /\ last' = [op |-> "should_alien_fire", query |-> "none", ret |-> "raised"]
          ELSE IF bridge.kind = "cli" /\ ~spawn_ok
          THEN /\ bridge' = [bridge EXCEPT !.query = alien_id]
               /\ last' = [op |-> "should_alien_fire", query |-> "unavailable",
                           ret |-> "False"]
          ELSE /\ bridge' = [bridge EXCEPT
                                !.query = IF bridge.kind = "cli" THEN alien_id ELSE @,
                                !.call = "waiting"]
               /\ last' = [op |-> "should_alien_fire", query |-> "running",
                           ret |-> "pending"]
    /\ UNCHANGED <<alienVars, barrierVars, playerVars, gameVars, hist>>

\* The query of a waiting should_alien_fire call ends, and the call returns.
BridgeQueryEnds ==
    /\ bridge.call = "waiting"
    /\ IF bridge.kind = "cli"
       THEN \E o \in CLIProcessOutcomes :
               LET file == ResultFileAfter(bridge.result_file, o.writes)
               IN  /\ bridge' = [bridge EXCEPT !.result_file = file, !.call = "idle"]
                   /\ last' = [op |-> "should_alien_fire", query |-> o.query,
                               ret |-> CLIExecuteResult(o.rc_nonzero, o.stderr, file)]
       ELSE \E q \in PyswipOutcomes :
               /\ bridge' = [bridge EXCEPT !.call = "idle"]
               /\ last' = [op |-> "should_alien_fire", query |-> q,
                           ret |-> PyswipQueryResult(q)]
    /\ UNCHANGED <<alienVars, barrierVars, playerVars, gameVars, hist>>

\* the calls the loop makes
BridgeCalls ==
    \/ BridgeSetStrategy
    \/ BridgeUpdateState
    \/ BridgeShouldAlienFire

NextBridge ==
    \/ BridgeSetStrategy
    \/ BridgeUpdateState
    \/ BridgeShouldAlienFire
    \/ BridgeQueryEnds

\* The loop keeps calling while no call is in progress; nothing makes a
\* running query end.
SpecBridge == InitBridge /\ [][NextBridge]_vars /\ WF_vars(BridgeCalls)

\* C16: should_alien_fire returns True only if the query issued by that very
\* call succeeded.
C16_TrueOnlyIfOwnQuerySucceeded ==
    (last.op = "should_alien_fire" /\ last.ret = "True") => last.query = "succeeded"

\* C16, the part that holds: PrologBridge returns True only for a query of
\* its own that succeeded, and CLIPrologBridge returns False when the engine
\* is unavailable or the run ends with a return code and a message on stderr.
C16_PyswipTrueOnlyIfOwnQuerySucceeded ==
    /\ (bridge.kind = "pyswip" /\ last.op = "should_alien_fire" /\ last.ret = "True")
          => last.query = "succeeded"
    /\ (last.op = "should_alien_fire" /\ last.query = "unavailable")
          => last.ret = "False"

\* C17: no update_state, should_alien_fire or set_strategy call raises into
\* the loop, for either collaborator.
C17_NoCallRaises == bridge.call # "raised"

\* C17, the part that holds: no call on PrologBridge raises.
C17_PyswipNoCallRaises == bridge.kind = "pyswip" => bridge.call # "raised"

\* C18: every call on the collaborator returns: a should_alien_fire call that
\* waits for its query stops waiting.
C18_EveryCallReturns == [](bridge.call = "waiting" => <>(bridge.call # "waiting"))

\* the strategy numbers of the strategy facts a query sees
StrategiesVisible == {f.id : f \in {g \in bridge.state : g.pred = "strategy"}}

\* the facts about the game a query sees
GameFactsVisible == {f \in bridge.state : f.pred # "strategy"}

\* no write or assertion has failed so far
NoFailure == ~hist.failed /\ bridge.call # "raised"

\* C27: after set_strategy(None) no strategy fact is visible to a later
\* query, whatever was set before and whatever update_state calls follow;
\* after set_strategy(s) exactly strategy(s) is visible, until the next
\* set_strategy; for both collaborators (in runs in which no write or
\* assertion fails).
C27_VisibleStrategyIsTheOneSet ==
    NoFailure =>
        StrategiesVisible = (IF bridge.current_strategy = 0 THEN {}
                             ELSE {bridge.current_strategy})

\* C27, the part that holds: CLIPrologBridge shows exactly the strategy set.
C27_CLIVisibleStrategyIsTheOneSet ==
    (bridge.kind = "cli" /\ NoFailure) =>
        StrategiesVisible = (IF bridge.current_strategy = 0 THEN {}
                             ELSE {bridge.current_strategy})

\* C28: set_strategy does not discard the game state: right after a
\* set_strategy that follows an update_state, a query still sees the player,
\* alien, barrier and screen-size facts of that update_state.
C28_SetStrategyKeepsGameFacts ==
    (last.op = "set_strategy" /\ hist.updated /\ NoFailure) =>
        GameFacts(hist.snapshot) \subseteq GameFactsVisible

\* C28, the part that holds: PrologBridge keeps the facts of the last
\* update_state across set_strategy.
C28_PyswipSetStrategyKeepsGameFacts ==
    (bridge.kind = "pyswip" /\ last.op = "set_strategy" /\ hist.updated /\ NoFailure) =>
        GameFacts(hist.snapshot) \subseteq GameFactsVisible

\* C29: right after update_state the facts about the game a query sees are
\* those of the game state just handed over and no others: one player fact,
\* one alien fact per active alien, one barrier fact per active barrier, one
\* screen_size fact, for both collaborators.
C29_OnlyCurrentGameFacts ==
    (last.op = "update_state" /\ NoFailure) =>
        GameFactsVisible = GameFacts(hist.snapshot)

\* C29, the part that holds: the state file of CLIPrologBridge holds the
\* facts of the current game state only.
C29_CLIOnlyCurrentGameFacts ==
    (bridge.kind = "cli" /\ last.op = "update_state" /\ NoFailure) =>
        GameFactsVisible = GameFacts(hist.snapshot)

-----------------------------------------------------------------------------
(* SpecEntity: two entities (hist.self, hist.other) constructed at any       *)
(* positions and sizes within the bounds, under collides_with, deactivate    *)
(* and a move followed by update.                                            *)

ProbeEntities ==
    {Entity(x, y, w, h) : x \in 0..MaxEntityPos, y \in 0..MaxEntityPos,
                          w \in 1..MaxEntitySize, h \in 1..MaxEntitySize}

InitEntity ==
    /\ \E a \in ProbeEntities, b \in ProbeEntities : hist = [self |-> a, other |-> b]
    /\ AlienIdle /\ BarrierIdle /\ PlayerIdle /\ GameIdle /\ BridgeIdle
    /\ last = NoCall

\* self.collides_with(other)
EntityCollidesWith ==
    /\ last' = [op |-> "Entity.collides_with",
                ret |-> collides_with(hist.self, hist.other),
                rev |-> collides_with(hist.other, hist.self)]
    /\ UNCHANGED <<bridgeVars, alienVars, barrierVars, playerVars, gameVars, hist>>

\* deactivate() on one of the two
EntityDeactivate ==
    /\ \/ hist.self.active /\ hist' = [hist EXCEPT !.self = Deactivate(@)]
       \/ hist.other.active /\ hist' = [hist EXCEPT !.other = Deactivate(@)]
    /\ last' = [op |-> "Entity.deactivate"]
    /\ UNCHANGED <<bridgeVars, alienVars, barrierVars, playerVars, gameVars>>

\* self moves one step to the right and is updated, as the subclasses do
EntityMove ==
    /\ hist.self.x < MaxEntityPos
    /\ hist' = [hist EXCEPT !.self = EntityUpdate([@ EXCEPT !.x = @ + 1])]
    /\ last' = [op |-> "Entity.update"]
    /\ UNCHANGED <<bridgeVars, alienVars, barrierVars, playerVars, gameVars>>

NextEntity ==
    \/ EntityCollidesWith
    \/ EntityDeactivate
    \/ EntityMove

SpecEntity == InitEntity /\ [][NextEntity]_vars

\* the pixels covered by the rectangle of an entity
Pixels(e) == (e.rx..(e.rx + e.width - 1)) \X (e.ry..(e.ry + e.height - 1))

\* C21: collides_with is False whenever either entity is inactive; for two
\* active entities it is True exactly when their rectangles share a pixel
\* (overlap of positive area: rectangles that only touch do not collide); and
\* the result is the same with the two entities exchanged.
C21_CollidesIffActiveAndOverlapping ==
    last.op = "Entity.collides_with" =>
        /\ last.ret = (/\ hist.self.active
                       /\ hist.other.active
                       /\ Pixels(hist.self) \cap Pixels(hist.other) # {})
        /\ last.ret = last.rev

\* C21 witness: two active entities whose rectangles touch along an edge
\* have just been found not to collide.
C21_Witness ==
    /\ last.op = "Entity.collides_with"
    /\ hist.self.active /\ hist.other.active
    /\ hist.self.rx + hist.self.width = hist.other.rx
    /\ hist.self.ry = hist.other.ry
    /\ ~last.ret

\* C21 witness of a collision: two active entities overlapping in one pixel.
C21_OverlapWitness ==
    /\ last.op = "Entity.collides_with"
    /\ hist.self.active /\ hist.other.active
    /\ hist.self.rx + hist.self.width = hist.other.rx + 1
    /\ last.ret

-----------------------------------------------------------------------------
(* SpecBuild: BarrierGroup.__init__ with the configured cell grid            *)
(* (BARRIER_SEGMENTS_Y x BARRIER_SEGMENTS_X), for any count, start_x and y   *)
(* within the bounds (main: BARRIER_COUNT, 0, GAME_AREA_BOTTOM - 100),       *)
(* followed by update() calls on the new group.                              *)

InitBuild ==
    /\ barriers = <<>>
    /\ AlienIdle /\ PlayerIdle /\ GameIdle /\ BridgeIdle
    /\ last = NoCall
    /\ hist = 0

\* BarrierGroup(count, start_x, SCREEN_WIDTH, y)
BarrierGroupConstruct ==
    /\ \E count \in 1..MaxBuildCount, i \in 0..(NumBuildXs - 1), j \in 0..(NumBuildYs - 1) :
          /\ barriers' = BarrierGroupInit(count, i * BARRIER_SEGMENT_SIZE, SCREEN_WIDTH,
                                          GAME_AREA_BOTTOM - 100 + j * BARRIER_SEGMENT_SIZE,
                                          BARRIER_SEGMENTS_Y, BARRIER_SEGMENTS_X)
          /\ last' = [op |-> "BarrierGroup.__init__"]
    /\ UNCHANGED <<bridgeVars, alienVars, playerVars, gameVars, hist>>

\* barriers.update() on the group as constructed
BarrierGroupFirstUpdate ==
    /\ barriers # <<>>
    /\ barriers' = BarrierGroupUpdate(barriers)
    /\ last' = [op |-> "BarrierGroup.update"]
    /\ UNCHANGED <<bridgeVars, alienVars, playerVars, gameVars, hist>>

NextBuild ==
    \/ BarrierGroupConstruct
    \/ BarrierGroupFirstUpdate

SpecBuild == InitBuild /\ [][NextBuild]_vars

\* the cells a new barrier is to hold, in row-major order: the grid without
\* the two top corners and without the two centre columns of the rows from
\* two thirds of the row count on
StencilCells ==
    LET cells == {<<r, c>> \in (0..(BARRIER_SEGMENTS_Y - 1)) \X (0..(BARRIER_SEGMENTS_X - 1)) :
                     /\ <<r, c>> \notin {<<0, 0>>, <<0, BARRIER_SEGMENTS_X - 1>>}
                     /\ ~(/\ 3 * r >= 2 * BARRIER_SEGMENTS_Y
                          /\ c \in {(BARRIER_SEGMENTS_X \div 2) - 1, BARRIER_SEGMENTS_X \div 2})}
    IN  cells

\* the cell of barrier bar in which segment seg lies
CellOf(bar, seg) ==
    <<(seg.y - bar.y) \div BARRIER_SEGMENT_SIZE, (seg.x - bar.x) \div BARRIER_SEGMENT_SIZE>>

\* C23: a newly constructed Barrier holds exactly the cells of the
\* BARRIER_SEGMENTS_Y x BARRIER_SEGMENTS_X grid except the two top-row corners
\* and the 2-column centred notch of the bottom rows: 42 segments with the
\* 6 x 8 configuration, in row-major order, with segment ids 0..41 in list
\* order, each with health 3 and active, each lying on its cell, and the
\* barrier is active.
C23_NewBarrierHoldsTheStencil ==
    \A b \in DOMAIN barriers :
       LET bar == barriers[b]
           segs == bar.segments
       IN  /\ bar.active
           /\ Len(segs) = 42
           /\ Len(segs) = Cardinality(StencilCells)
           /\ {CellOf(bar, segs[k]) : k \in DOMAIN segs} = StencilCells
           /\ \A k \in DOMAIN segs :
                 /\ segs[k].segment_id = k - 1
                 /\ segs[k].health = 3
                 /\ segs[k].active
                 /\ segs[k].x = bar.x + CellOf(bar, segs[k])[2] * BARRIER_SEGMENT_SIZE
                 /\ segs[k].y = bar.y + CellOf(bar, segs[k])[1] * BARRIER_SEGMENT_SIZE
           /\ \A k \in DOMAIN segs, l \in DOMAIN segs :
                 k < l => \/ CellOf(bar, segs[k])[1] < CellOf(bar, segs[l])[1]
                          \/ /\ CellOf(bar, segs[k])[1] = CellOf(bar, segs[l])[1]
                             /\ CellOf(bar, segs[k])[2] < CellOf(bar, segs[l])[2]

\* C23 witness: the four barriers of main have just been constructed.
C23_Witness ==
    /\ last.op = "BarrierGroup.__init__"
    /\ Len(barriers) = 4
    /\ barriers[1].x = 60 /\ barriers[1].y = GAME_AREA_BOTTOM - 100
    /\ Len(barriers[4].segments) = 42

-----------------------------------------------------------------------------
(* SpecGame: the main loop of space_invaders.py with the positions of the    *)
(* player, the aliens and the bullets, without QUIT.  One frame of the       *)
(* Playing state is one step, GameTick: the arrow keys held, player.update,  *)
(* aliens.update, and the collision resolution in the order of the code.     *)
(* The alien grid is one column of GameRows aliens, ten ticks from the right *)
(* edge, its lowest row three descents from the bottom; in SpecGameLive, which adds weak *)
(* fairness of the frame body, one descent from the bottom.  In SpecGame no  *)
(* should_fire() draw succeeds; in SpecGameLive one alien bullet at a time   *)
(* is in flight.  K_LEFT is not held.  The barriers' segments are not tracked: *)
(* barriers.check_collision is an input for every bullet that overlaps the   *)
(* box of one of the four barriers.  hist.games counts the games started.    *)

GameAliens ==
    AlienGroupInit(GameRows, 1, SCREEN_WIDTH - ALIEN_WIDTH - 10 * ALIEN_HORIZONTAL_SPEED,
                   GAME_AREA_BOTTOM - 100
                     - (GameRows - 1) * (ALIEN_HEIGHT + ALIEN_VERTICAL_SPACING),
                   ALIEN_HORIZONTAL_SPACING, ALIEN_VERTICAL_SPACING)

\* the same column on its last sweep
LastSweepAliens ==
    AlienGroupInit(GameRows, 1, SCREEN_WIDTH - ALIEN_WIDTH - 10 * ALIEN_HORIZONTAL_SPEED,
                   GAME_AREA_BOTTOM - ALIEN_HEIGHT - ALIEN_VERTICAL_SPEED
                     - (GameRows - 1) * (ALIEN_HEIGHT + ALIEN_VERTICAL_SPACING),
                   ALIEN_HORIZONTAL_SPACING, ALIEN_VERTICAL_SPACING)

\* keys[K_LEFT] and keys[K_RIGHT] of one frame
GameKeys == {[left |-> FALSE, right |-> r] : r \in BOOLEAN}

\* bullet.collides_with(alien)
BulletHitsAlien(b, a) ==
    /\ b.active /\ a.active
    /\ RectsOverlap(b.rx, b.ry, BULLET_WIDTH, BULLET_HEIGHT,
                    a.rx, a.ry, ALIEN_WIDTH, ALIEN_HEIGHT)

\* bullet.collides_with(player)
BulletHitsPlayer(b, p) ==
    /\ b.active /\ p.active
    /\ RectsOverlap(b.rx, b.ry, BULLET_WIDTH, BULLET_HEIGHT,
                    p.rx, p.ry, PLAYER_WIDTH, PLAYER_HEIGHT)

\* the bullet overlaps the cell grid of one of the barriers of
\* BarrierGroup(BARRIER_COUNT, 0, SCREEN_WIDTH, GAME_AREA_BOTTOM - 100)
OverBarrier(b) ==
    LET spacing == SCREEN_WIDTH \div BARRIER_COUNT
    IN  \E i \in 0..(BARRIER_COUNT - 1) :
           RectsOverlap(b.rx, b.ry, BULLET_WIDTH, BULLET_HEIGHT,
                        i * spacing + (spacing \div 2) - (BARRIER_WIDTH \div 2),
                        GAME_AREA_BOTTOM - 100,
                        BARRIER_SEGMENTS_X * BARRIER_SEGMENT_SIZE,
                        BARRIER_SEGMENTS_Y * BARRIER_SEGMENT_SIZE)

\* "Player bullets hitting aliens" on rectangles: for each active player
\* bullet in list order, the first active alien in grid order that it
\* collides with is deactivated together with the bullet and scored.
RECURSIVE GameBulletsHitAliens(_, _, _, _)
GameBulletsHitAliens(bs, grp, g, i) ==
    IF i > Len(bs) THEN [bullets |-> bs, aliens |-> grp, gs |-> g]
    ELSE LET hits == {k \in DOMAIN grp : BulletHitsAlien(bs[i], grp[k])}
         IN  IF hits = {} THEN GameBulletsHitAliens(bs, grp, g, i + 1)
             ELSE LET k == CHOOSE h \in hits : \A j \in hits : h <= j
                  IN  GameBulletsHitAliens([bs EXCEPT ![i] = Deactivate(bs[i])],
                                           [grp EXCEPT ![k] = Deactivate(grp[k])],
                                           add_score(g, grp[k].points), i + 1)

\* "Alien bullets hitting player" on rectangles: each colliding bullet is
\* deactivated and player.take_damage() called; game_over() if it returns True.
RECURSIVE GameBulletsHitPlayer(_, _, _, _)
GameBulletsHitPlayer(bs, p, g, j) ==
    IF j > Len(bs) THEN [bullets |-> bs, player |-> p, gs |-> g]
    ELSE IF BulletHitsPlayer(bs[j], p)
         THEN LET r == PlayerTakeDamage(p)
              IN  GameBulletsHitPlayer([bs EXCEPT ![j] = Deactivate(bs[j])], r.player,
                                       IF r.ret THEN game_over(g) ELSE g, j + 1)
         ELSE GameBulletsHitPlayer(bs, p, g, j + 1)

\* The state after construction, the aliens built as `grid`.
InitGameWith(grid) ==
    /\ GameIdle
    /\ player = InitPlayer
    /\ pbullets = <<>>
    /\ aliens = grid
    /\ abullets = <<>>
    /\ BarrierIdle /\ BridgeIdle
    /\ last = NoCall
    /\ hist = [games |-> 0]

\* KEYDOWN K_RETURN: from the menu, the game-over screen or the win screen a
\* new game starts with new objects, the aliens built as `grid`; during play
\* the key does nothing.
StartGame(grid) ==
    /\ running /\ pc = "events"
    /\ IF is_menu(gs) \/ is_game_over(gs) \/ game_won
       THEN /\ hist.games < MaxGames
            /\ gs' = start_game(gs)
            /\ player' = InitPlayer
            /\ pbullets' = <<>>
            /\ aliens' = grid
            /\ abullets' = <<>>
            /\ game_won' = FALSE
            /\ last' = [op |-> "GameStateManager.start_game", from |-> gs.current_state]
            /\ hist' = [games |-> hist.games + 1]
       ELSE /\ last' = [op |-> "KEYDOWN", key |-> "K_RETURN"]
            /\ UNCHANGED <<alienVars, playerVars, gs, game_won, hist>>
    /\ UNCHANGED <<bridgeVars, barrierVars, running, pc>>

InitGame == InitGameWith(GameAliens)

GameReturn == StartGame(GameAliens)

InitGameLive == InitGameWith(LastSweepAliens)

GameReturnLive == StartGame(LastSweepAliens)

\* The frame body while playing.  The intermediate results are bound once:
\* the player after the arrow keys, the aliens after aliens.update, and the
\* outcome of the two collision loops.
PlayingFrame(cap) ==
    /\ running /\ pc = "events"
    /\ is_playing(gs)
    /\ \E keys \in GameKeys, fire \in FireChoicesUpTo(aliens, abullets, cap) :
       \E went \in {IF keys.right
                    THEN move_right(IF keys.left THEN move_left(player) ELSE player)
                    ELSE IF keys.left THEN move_left(player) ELSE player},
          moved \in {AlienGroupMove(aliens)} :
       \E r1 \in {GameBulletsHitAliens(PlayerBulletsStep(pbullets), moved, gs, 1)} :
       \E r2 \in {GameBulletsHitPlayer(
                      AlienBulletsStep(abullets \o FiredBullets(moved, fire, 1)),
                      PlayerUpdate(went), r1.gs, 1)} :
       \E phit \in SUBSET {i \in ActiveBullets(r1.bullets) : OverBarrier(r1.bullets[i])},
          ahit \in SUBSET {j \in ActiveBullets(r2.bullets) : OverBarrier(r2.bullets[j])} :
          /\ player' = r2.player
          /\ pbullets' = [i \in DOMAIN r1.bullets |->
                             IF i \in phit THEN Deactivate(r1.bullets[i])
                             ELSE r1.bullets[i]]
          /\ aliens' = r1.aliens
          /\ abullets' = [j \in DOMAIN r2.bullets |->
                             IF j \in ahit THEN Deactivate(r2.bullets[j])
                             ELSE r2.bullets[j]]
          /\ game_won' = IF is_empty(r1.aliens) THEN TRUE ELSE game_won
          /\ gs' = IF reached_bottom(r1.aliens, GAME_AREA_BOTTOM)
                   THEN game_over(r2.gs) ELSE r2.gs
    /\ last' = [op |-> "tick"]
    /\ UNCHANGED <<bridgeVars, barrierVars, running, pc, hist>>

GameTick == PlayingFrame(MaxGameAlienBullets)

LiveTick == PlayingFrame(MaxLiveAlienBullets)

NextGame ==
    \/ GameReturn
    \/ EventSpace
    \/ FrameIdle
    \/ GameTick

SpecGame == InitGame /\ [][NextGame]_vars

NextGameLive ==
    \/ GameReturnLive
    \/ EventSpace
    \/ FrameIdle
    \/ LiveTick

\* The loop runs on: while the state is Playing the frame body is executed
\* again and again (clock.tick(FPS) at the end of every frame).
SpecGameLive == InitGameLive /\ [][NextGameLive]_vars /\ WF_vars(LiveTick)

\* C36: at the start of every tick in which the state is Playing, the bottom
\* edge of every active alien is strictly above GAME_AREA_BOTTOM, so that no
\* active alien overlaps the player's rectangle during play; and a tick
\* never lowers an alien's y.
C36_AliensAbovePlayerWhilePlaying ==
    /\ [](is_playing(gs) =>
            \A k \in ActiveAliens(aliens) :
               /\ aliens[k].y + ALIEN_HEIGHT < GAME_AREA_BOTTOM
               /\ ~RectsOverlap(aliens[k].rx, aliens[k].ry, ALIEN_WIDTH, ALIEN_HEIGHT,
                                player.rx, player.ry, PLAYER_WIDTH, PLAYER_HEIGHT))
    /\ [][last'.op = "tick" =>
            \A k \in DOMAIN aliens : aliens'[k].y >= aliens[k].y]_vars

\* C36: a game still being played with the alien one descent from the
\* bottom, its bottom edge at GAME_AREA_BOTTOM - ALIEN_VERTICAL_SPEED.
C36_Witness ==
    /\ is_playing(gs)
    /\ last.op = "tick"
    /\ \E k \in ActiveAliens(aliens) :
          aliens[k].y + ALIEN_HEIGHT = GAME_AREA_BOTTOM - ALIEN_VERTICAL_SPEED

\* C36: the tick of the last descent: the alien's bottom edge is at
\* GAME_AREA_BOTTOM and the state is GameOver.
C36_BottomWitness ==
    /\ is_game_over(gs)
    /\ \E k \in ActiveAliens(aliens) : aliens[k].y + ALIEN_HEIGHT = GAME_AREA_BOTTOM

\* C34: every started game ends: as long as ticks keep occurring, whatever
\* keys are pressed, a Playing state is followed by a state where no alien
\* is active or the state is GameOver.
C34_EveryGameEnds == is_playing(gs) ~> (is_empty(aliens) \/ is_game_over(gs))

\* C34: a game lost with two lives left and without a kill, the alien having
\* swept to the bottom while the player moved to the right edge.
C34_Witness ==
    /\ player.lives = 2
    /\ is_game_over(gs)
    /\ hist.games = 1
    /\ gs.score = 0
    /\ player.x = SCREEN_WIDTH - PLAYER_WIDTH
    /\ reached_bottom(aliens, GAME_AREA_BOTTOM)

\* C34: a game won before the alien's descent.
C34_WonWitness ==
    /\ is_playing(gs) /\ game_won
    /\ is_empty(aliens)
    /\ gs.score > 0

\* C34, on the longer game of SpecGame: a frame of a game that is not over
\* brings every active alien nearer to the bottom: it is lower than before,
\* or as low and nearer to the edge it moves towards.  y stays below
\* GAME_AREA_BOTTOM and x within the screen, so this cannot go on forever.
C34_EveryTickAdvancesTheAliens ==
    [][(last'.op = "tick" /\ is_playing(gs')) =>
          \A k \in ActiveAliens(aliens') :
             \/ aliens'[k].y > aliens[k].y
             \/ /\ aliens'[k].y = aliens[k].y
                /\ aliens'[k].direction = aliens[k].direction
                /\ aliens'[k].direction * aliens'[k].x
                      > aliens[k].direction * aliens[k].x]_vars

\* C32: no player bullet passes through an active alien undetected: if a
\* frame takes an active bullet from entirely below an active alien of its
\* column to entirely above it, the collision loop of that frame destroys
\* the alien.
C32_NoBulletPassesAnAlien ==
    [][last'.op = "tick" =>
          \A i \in ActiveBullets(pbullets), k \in ActiveAliens(aliens) :
             LET b == pbullets[i]
                 after == BulletUpdate(b)
                 InColumn(a) == b.x < a.x + ALIEN_WIDTH /\ a.x < b.x + BULLET_WIDTH
             IN  ( /\ InColumn(aliens[k]) /\ InColumn(aliens'[k])
                   /\ b.y >= aliens[k].y + ALIEN_HEIGHT
                   /\ after.y + BULLET_HEIGHT <= aliens'[k].y )
                 => ~aliens'[k].active]_vars

\* C32, the part the code keeps: a bullet does not get past an alien in a
\* frame in which the alien does not descend.
C32_NoPassWithoutDescent ==
    [][last'.op = "tick" =>
          \A i \in ActiveBullets(pbullets), k \in ActiveAliens(aliens) :
             LET b == pbullets[i]
                 after == BulletUpdate(b)
                 InColumn(a) == b.x < a.x + ALIEN_WIDTH /\ a.x < b.x + BULLET_WIDTH
             IN  ( /\ InColumn(aliens[k]) /\ InColumn(aliens'[k])
                   /\ aliens'[k].y = aliens[k].y
                   /\ b.y >= aliens[k].y + ALIEN_HEIGHT
                   /\ after.y + BULLET_HEIGHT <= aliens'[k].y )
                 => ~aliens'[k].active]_vars

=============================================================================
